---- MODULE Spec2Model ----
(***************************************************************************)
(* A model of src/ArtWork.py (MacDataProcessor): header inference, file    *)
(* extraction and consolidation, tracker processing, the outer join, the   *)
(* date filter, the projection onto the final schema, and the seven-stage  *)
(* workflow thread that drives them.                                       *)
(*                                                                         *)
(* Text is modelled by TLA+ strings; a spreadsheet cell is the text that   *)
(* pandas' astype(str) gives for it, so an empty cell is the text "nan".   *)
(***************************************************************************)
EXTENDS Integers, Sequences, FiniteSets, TLC

(***************************************************************************)
(* Text primitives: str.lower, str.strip, re.sub(r'[^a-z0-9]', '', s),     *)
(* the substring test `p in s`, and str.extract(r'(\d+)').                 *)
(***************************************************************************)
UpperAlphabet == "ABCDEFGHIJKLMNOPQRSTUVWXYZ"

LowerAlphabet == "abcdefghijklmnopqrstuvwxyz"

DigitAlphabet == "0123456789"

CharsOf(s) == { SubSeq(s, i, i) : i \in 1..Len(s) }

DigitChars == CharsOf(DigitAlphabet)

AlnumChars == CharsOf(LowerAlphabet) \cup DigitChars

UpperChars == CharsOf(UpperAlphabet)

LowerOf == [ c \in UpperChars |->
               LET i == CHOOSE k \in 1..Len(UpperAlphabet) : SubSeq(UpperAlphabet, k, k) = c
               IN  SubSeq(LowerAlphabet, i, i) ]

UpperOf == [ c \in CharsOf(LowerAlphabet) |->
               LET i == CHOOSE k \in 1..Len(LowerAlphabet) : SubSeq(LowerAlphabet, k, k) = c
               IN  SubSeq(UpperAlphabet, i, i) ]

WhiteChars == {" "}

RECURSIVE str_lower(_)
str_lower(s) ==
    IF s = "" THEN ""
    ELSE LET c == Head(s)
         IN  (IF c \in UpperChars THEN LowerOf[c] ELSE c) \o str_lower(Tail(s))

RECURSIVE str_upper(_)
str_upper(s) ==
    IF s = "" THEN ""
    ELSE LET c == Head(s)
         IN  (IF c \in DOMAIN UpperOf THEN UpperOf[c] ELSE c) \o str_upper(Tail(s))

RECURSIVE lstrip(_)
lstrip(s) == IF s # "" /\ Head(s) \in WhiteChars THEN lstrip(Tail(s)) ELSE s

RECURSIVE rstrip(_)
rstrip(s) ==
    IF s # "" /\ SubSeq(s, Len(s), Len(s)) \in WhiteChars
    THEN rstrip(SubSeq(s, 1, Len(s) - 1))
    ELSE s

str_strip(s) == rstrip(lstrip(s))

\* re.sub(r'[^a-z0-9]', '', s)
RECURSIVE clean_alnum(_)
clean_alnum(s) ==
    IF s = "" THEN ""
    ELSE (IF Head(s) \in AlnumChars THEN Head(s) ELSE "") \o clean_alnum(Tail(s))

\* Python's `p in s` for strings
str_contains(p, s) ==
    \E i \in 1..(Len(s) - Len(p) + 1) : SubSeq(s, i, i + Len(p) - 1) = p

\* The value pandas holds for a missing cell; astype(str) turns it into "nan".
NaN == "<NaN>"

astype_str(v) == IF v = NaN THEN "nan" ELSE v

\* a normalization that keeps the cell text as it is
extract_digits_whole(s) == s

RECURSIVE TakeDigits(_)
TakeDigits(s) ==
    IF s # "" /\ Head(s) \in DigitChars THEN Head(s) \o TakeDigits(Tail(s)) ELSE ""

\* a normalization that loses the first digit of the run
RECURSIVE extract_digits_rest(_)
extract_digits_rest(s) ==
    IF s = "" THEN NaN
    ELSE IF Head(s) \in DigitChars THEN TakeDigits(Tail(s))
    ELSE extract_digits_rest(Tail(s))

\* Series.str.extract(r'(\d+)', expand=False) on one value: the first run of
\* digits, NaN when the text holds no digit.
RECURSIVE extract_digits(_)
extract_digits(s) ==
    IF s = "" THEN NaN
    ELSE IF Head(s) \in DigitChars THEN TakeDigits(s)
    ELSE extract_digits(Tail(s))

(***************************************************************************)
(* Sequence helpers.                                                       *)
(***************************************************************************)
Range(f) == { f[i] : i \in DOMAIN f }

RECURSIVE SelectIdx(_, _, _)
\* the subsequence of s at the indexes i with keep[i], in order
SelectIdx(s, keep, i) ==
    IF i > Len(s) THEN <<>>
    ELSE (IF keep[i] THEN <<s[i]>> ELSE <<>>) \o SelectIdx(s, keep, i + 1)

SeqsUpTo(S, n) == UNION { [1..k -> S] : k \in 0..n }

(***************************************************************************)
(* intelligent_data_extraction: column_patterns (an ordered dict).         *)
(***************************************************************************)
target_columns ==
    << "Item Number", "VBU", "Product Vendor Company Name", "Brand",
       "Product Name", "SKU New/Existing" >>

column_patterns ==
    [ t \in Range(target_columns) |->
        CASE t = "Item Number" -> << "item #", "item#", "itemnumber", "item number" >>
          [] t = "VBU" -> << "vbu", "v.b.u", "vbu (if provided)", "vertical business unit" >>
          [] t = "Product Vendor Company Name" -> << "vendor name", "vendor", "supplier" >>
          [] t = "Brand" -> << "brand" >>
          [] t = "Product Name" -> << "item description", "description", "product name" >>
          [] t = "SKU New/Existing" -> << "sku", "sku new/existing" >> ]

\* clean_pattern = re.sub(r'[^a-z0-9]', '', pattern), for every pattern
clean_patterns ==
    [ t \in Range(target_columns) |->
        [ i \in DOMAIN column_patterns[t] |-> clean_alnum(column_patterns[t][i]) ] ]

\* for pattern in patterns: if clean_pattern in clean_header: ... break
matches_target(t, clean_header) ==
    \E i \in DOMAIN clean_patterns[t] : str_contains(clean_patterns[t][i], clean_header)

(***************************************************************************)
(* State.                                                                  *)
(***************************************************************************)
VARIABLES
    \* find_header_row_fast, run on one sheet sample
    df_sample,      \* the sample: a sequence of rows, each a sequence of cells
    row_idx,        \* the loop index of `for row_idx in range(...)`
    best_row,       \* None or a row index
    best_score,
    row_score,      \* `score` as computed for the row last scanned
    hdr_pc,         \* "loop" | "returned"
    hdr_result,     \* the value returned
    \* the environment of a run
    fs_files,               \* the workbooks under the _Production Item List folders
    tracker_file,           \* the workbook at project_tracker_path
    sharepoint_access_ok,
    start_date,
    end_date,
    cpu_count,              \* os.cpu_count()
    \* MacDataProcessor's fields
    production_files,
    consolidated_data,
    project_tracker_data,
    combined_data,
    final_output_data,
    apply_btn_disabled,
    \* the workflow thread (run_automated_workflow.process)
    pc,                     \* "idle", "start", "step1" .. "step7", "done", "failed"
    progress,               \* the value last passed to update_progress
    status,                 \* the text last passed to update_status
    error_msg,              \* the text of the "Processing Failed" popup
    reenable_scheduled,     \* Clock.schedule_once(... apply_btn.disabled = False) is pending
    process_threads,        \* the threads started with target=process that have not returned
    \* the pool of intelligent_data_extraction
    futures,                \* per file: "pending", "finished" or "collected"
    results,                \* per file: the frame its extract_file returned
    all_data,
    completed,
    processing_logs,        \* the lines log_message appended during the extraction
    \* the business-key normalization, applied over and over to one cell
    norm_cell,              \* the text of the cell
    norm_keys,              \* the keys obtained so far, each with the site that made it
    \* history
    started,                \* the stages started by the run, in order
    stage_rows,             \* per stage: the number of rows (files) it produced, -1 before it ran
    stage_result,           \* per stage: "none", "ok" (it returned) or "failed" (it raised)
    combined_pairs,         \* per row of the merge: <<consolidated index, tracker index>>
    filter_raised           \* the last filter_by_date_range went through its except clause

hdr_vars == << df_sample, row_idx, best_row, best_score, row_score, hdr_pc, hdr_result >>

env_vars == << fs_files, tracker_file, sharepoint_access_ok, start_date, end_date, cpu_count >>

data_vars == << production_files, consolidated_data, project_tracker_data, combined_data,
                final_output_data >>

pool_vars == << futures, results, all_data, completed, processing_logs >>

norm_vars == << norm_cell, norm_keys >>

run_vars == << apply_btn_disabled, pc, progress, status, error_msg, reenable_scheduled,
               started, stage_rows, stage_result, combined_pairs, process_threads,
               filter_raised >>

vars == << hdr_vars, env_vars, data_vars, pool_vars, run_vars, norm_vars >>

(***************************************************************************)
(* find_header_row_fast                                                    *)
(***************************************************************************)
\* `best_row = None`
None == -1

\* `range(min(15, len(df_sample)))`
HeaderSearchRows == 15

Min(a, b) == IF a <= b THEN a ELSE b

\* headers = df_sample.iloc[row_idx].astype(str).str.lower().str.strip()
row_headers(row) == [ i \in DOMAIN row |-> str_strip(str_lower(astype_str(row[i]))) ]

\* `for header in headers:` for one target, from cell i on, carrying `score`:
\* an empty or 'nan' header is skipped, a matching header adds one, and the loop
\* is left as soon as score > best_score.
RECURSIVE scan_headers(_, _, _, _, _)
scan_headers(t, headers, i, score, best) ==
    IF i > Len(headers) THEN score
    ELSE IF headers[i] = "nan" \/ headers[i] = "" THEN scan_headers(t, headers, i + 1, score, best)
    ELSE LET s2 == IF matches_target(t, clean_alnum(headers[i])) THEN score + 1 ELSE score
         IN  IF s2 > best THEN s2 ELSE scan_headers(t, headers, i + 1, s2, best)

\* `for target, patterns in column_patterns.items():` from target k on
RECURSIVE scan_targets(_, _, _, _)
scan_targets(k, headers, score, best) ==
    IF k > Len(target_columns) THEN score
    ELSE scan_targets(k + 1, headers,
                      scan_headers(target_columns[k], headers, 1, score, best), best)

\* the score the loop body computes for one row, given best_score so far
header_row_score(row, best) == scan_targets(1, row_headers(row), 0, best)

\* One iteration of the row loop, with its early return.
find_header_row_step ==
    /\ hdr_pc = "loop"
    /\ row_idx < Min(HeaderSearchRows, Len(df_sample))
    /\ LET score == header_row_score(df_sample[row_idx + 1], best_score)
           nbest_score == IF score > best_score THEN score ELSE best_score
           nbest_row == IF score > best_score THEN row_idx ELSE best_row
       IN  /\ row_score' = score
           /\ best_score' = nbest_score
           /\ best_row' = nbest_row
           /\ IF score >= 3
              THEN /\ hdr_pc' = "returned"
                   /\ hdr_result' = nbest_row
                   /\ row_idx' = row_idx
              ELSE /\ row_idx' = row_idx + 1
                   /\ UNCHANGED << hdr_pc, hdr_result >>
    /\ UNCHANGED df_sample

\* `return best_row if best_score >= 2 else None`
find_header_row_return ==
    /\ hdr_pc = "loop"
    /\ row_idx >= Min(HeaderSearchRows, Len(df_sample))
    /\ hdr_result' = IF best_score >= 2 THEN best_row ELSE None
    /\ hdr_pc' = "returned"
    /\ UNCHANGED << df_sample, row_idx, best_row, best_score, row_score >>

\* The whole function, as extract_file calls it.
RECURSIVE find_header_loop(_, _, _, _)
find_header_loop(sample, i, brow, bscore) ==
    IF i >= Min(HeaderSearchRows, Len(sample))
    THEN (IF bscore >= 2 THEN brow ELSE None)
    ELSE LET score == header_row_score(sample[i + 1], bscore)
             nrow == IF score > bscore THEN i ELSE brow
             nscore == IF score > bscore THEN score ELSE bscore
         IN  IF score >= 3 THEN nrow ELSE find_header_loop(sample, i + 1, nrow, nscore)

find_header_row_fast(sample) == find_header_loop(sample, 0, None, 0)

(***************************************************************************)
(* Data frames: the ordered column names and the rows, each row a function *)
(* from column name to value.                                              *)
(***************************************************************************)
EmptyFrame == [ columns |-> <<>>, rows |-> <<>> ]

\* DataFrame.empty: no rows or no columns
df_empty(df) == Len(df.rows) = 0 \/ Len(df.columns) = 0

has_column(df, c) == c \in Range(df.columns)

\* pd.concat(frames, ignore_index=True) of frames that have the same columns
RECURSIVE concat_rows(_)
concat_rows(frames) ==
    IF frames = <<>> THEN <<>> ELSE Head(frames).rows \o concat_rows(Tail(frames))

pd_concat(frames) == [ columns |-> Head(frames).columns, rows |-> concat_rows(frames) ]

\* df.drop_duplicates(subset=[c], keep='first'): a row stays when no earlier row
\* holds the same value in column c
drop_duplicates(df, c) ==
    [ df EXCEPT !.rows =
        SelectIdx(df.rows,
                  [ i \in DOMAIN df.rows |-> \A j \in 1..(i - 1) : df.rows[j][c] # df.rows[i][c] ],
                  1) ]

\* df[mask] for a mask computed row by row
filter_rows(df, keep(_)) ==
    [ df EXCEPT !.rows = SelectIdx(df.rows, [ i \in DOMAIN df.rows |-> keep(df.rows[i]) ], 1) ]

\* the index of the first element of seq that satisfies test, 0 when none does
first_index(seq, test(_)) ==
    IF \E i \in DOMAIN seq : test(seq[i])
    THEN CHOOSE i \in DOMAIN seq : test(seq[i]) /\ \A j \in 1..(i - 1) : ~test(seq[j])
    ELSE 0

(***************************************************************************)
(* Production workbooks as pandas reads them.  A workbook opens or not; a  *)
(* sheet reads or raises; a readable sheet is its rows of cells.           *)
(***************************************************************************)
\* pd.read_excel(..., header=None, nrows=20)
SampleRows == 20

read_sample(sheet) == SubSeq(sheet.rows, 1, Min(SampleRows, Len(sheet.rows)))

\* pd.read_excel(..., header=header_row, nrows=5000): the header row names the
\* columns (an empty header cell is named "Unnamed: <position>"), the rows
\* below it are the data
FullReadRows == 5000

unnamed(i) == "Unnamed: " \o SubSeq(DigitAlphabet, i, i)

read_full(sheet, header_row) ==
    LET hdr == sheet.rows[header_row + 1]
        body == SubSeq(sheet.rows, header_row + 2,
                       Min(Len(sheet.rows), header_row + 1 + FullReadRows))
    IN  [ names |-> [ i \in DOMAIN hdr |-> IF hdr[i] = "nan" THEN unnamed(i) ELSE hdr[i] ],
          cells |-> body ]

(***************************************************************************)
(* extract_columns_fast                                                    *)
(***************************************************************************)
\* for col_idx, col_name in enumerate(cols_lower): the first column one of the
\* target's patterns matches, 0 when there is none
mapped_column(t, names) ==
    first_index(names, LAMBDA n : matches_target(t, clean_alnum(str_lower(n))))

extract_columns_fast(df, file) ==
    IF Len(df.cells) = 0 THEN EmptyFrame
    ELSE
    LET col == [ t \in Range(target_columns) |-> mapped_column(t, df.names) ]
        \* extracted[target] = df.iloc[:, col_idx].astype(str).str.strip(), or ''
        raw(r, t) == IF col[t] = 0 THEN "" ELSE str_strip(astype_str(r[col[t]]))
        \* Item Number is the first target: when no column maps to it the frame
        \* takes the index of the next mapped column with Item Number missing
        item(r) == IF col["Item Number"] = 0 THEN NaN ELSE extract_digits(raw(r, "Item Number"))
        all_rows == [ i \in DOMAIN df.cells |->
                        [ c \in Range(target_columns) \cup { "Source_File", "Source_Folder" } |->
                            CASE c = "Item Number" -> item(df.cells[i])
                              [] c = "Source_File" -> file.name
                              [] c = "Source_Folder" -> file.folder
                              [] OTHER -> raw(df.cells[i], c) ] ]
        some_mapped == \E t \in Range(target_columns) : col[t] # 0
        kept == SelectIdx(all_rows,
                          [ i \in DOMAIN all_rows |->
                              all_rows[i]["Item Number"] # NaN /\ all_rows[i]["Item Number"] # "" ],
                          1)
    IN  IF ~some_mapped \/ kept = <<>>
        THEN [ columns |-> target_columns, rows |-> <<>> ]
        ELSE [ columns |-> target_columns \o << "Source_File", "Source_Folder" >>, rows |-> kept ]

(***************************************************************************)
(* extract_file                                                            *)
(***************************************************************************)
\* the body of `for sheet_name in excel_file.sheet_names:` for one sheet: the
\* frame appended to `sheets`, or EmptyFrame when the sheet is passed over
extract_sheet(sheet, file) ==
    IF ~sheet.readable THEN EmptyFrame
    ELSE LET sample == read_sample(sheet)
         IN  IF sample = <<>> THEN EmptyFrame
             ELSE LET header_row == find_header_row_fast(sample)
                  IN  IF header_row = None THEN EmptyFrame
                      ELSE extract_columns_fast(read_full(sheet, header_row), file)

RECURSIVE sheet_frames(_, _, _)
sheet_frames(file, k, acc) ==
    IF k > Len(file.sheets) THEN acc
    ELSE LET sheet_data == extract_sheet(file.sheets[k], file)
         IN  sheet_frames(file, k + 1,
                          IF df_empty(sheet_data) THEN acc ELSE Append(acc, sheet_data))

\* combined['Item Number'] = ...str.extract(r'(\d+)'); combined = combined[valid_items]
clean_item_numbers(df) ==
    LET ex == [ df EXCEPT !.rows =
                  [ i \in DOMAIN df.rows |->
                      [ df.rows[i] EXCEPT !["Item Number"] = extract_digits(astype_str(@)) ] ] ]
    IN  filter_rows(ex, LAMBDA r : r["Item Number"] # NaN /\ r["Item Number"] # "")

extract_file(file) ==
    IF ~file.opens THEN EmptyFrame
    ELSE LET sheets == sheet_frames(file, 1, <<>>)
         IN  IF sheets = <<>> THEN EmptyFrame
             ELSE LET combined ==
                        clean_item_numbers(drop_duplicates(pd_concat(sheets), "Item Number"))
                  IN  IF Len(combined.rows) > 0 THEN combined ELSE EmptyFrame

\* consolidation without the global drop_duplicates
consolidate_keep_all(frames) == pd_concat(frames)

\* consolidation that keeps, of the records of one key, the one collected last
consolidate_keep_last(frames) ==
    LET df == pd_concat(frames)
    IN  [ df EXCEPT !.rows =
            SelectIdx(df.rows,
                      [ i \in DOMAIN df.rows |->
                          \A j \in (i + 1)..Len(df.rows) :
                              df.rows[j]["Item Number"] # df.rows[i]["Item Number"] ],
                      1) ]

\* self.consolidated_data = pd.concat(all_data).drop_duplicates(subset=['Item Number'])
consolidate(frames) == drop_duplicates(pd_concat(frames), "Item Number")

(***************************************************************************)
(* Dates.  A date is the number yyyymmdd; NaT is what errors='coerce'      *)
(* gives for a value that does not parse.                                  *)
(***************************************************************************)
NaT == 0

digit_val(c) == (CHOOSE k \in 1..Len(DigitAlphabet) : SubSeq(DigitAlphabet, k, k) = c) - 1

all_digits(s) == s # "" /\ \A i \in 1..Len(s) : SubSeq(s, i, i) \in DigitChars

RECURSIVE parse_int(_, _)
parse_int(s, acc) ==
    IF s = "" THEN acc ELSE parse_int(Tail(s), acc * 10 + digit_val(Head(s)))

two_digits(n) ==
    SubSeq(DigitAlphabet, (n \div 10) + 1, (n \div 10) + 1) \o
    SubSeq(DigitAlphabet, (n % 10) + 1, (n % 10) + 1)

is_leap(y) == (y % 4 = 0 /\ y % 100 # 0) \/ y % 400 = 0

days_in_month(y, m) ==
    IF m = 2 THEN (IF is_leap(y) THEN 29 ELSE 28)
    ELSE IF m \in { 4, 6, 9, 11 } THEN 30 ELSE 31

make_date(y, m, d) ==
    IF m \in 1..12 /\ d >= 1 /\ d <= days_in_month(y, m) THEN y * 10000 + m * 100 + d ELSE NaT

RECURSIVE split_on(_, _, _)
\* text.split(sep), cur being the part read so far
split_on(s, sep, cur) ==
    IF s = "" THEN << cur >>
    ELSE IF Head(s) = sep THEN << cur >> \o split_on(Tail(s), sep, "")
    ELSE split_on(Tail(s), sep, cur \o Head(s))

\* pd.to_datetime(value, errors='coerce') on a tracker cell.  A date cell of the
\* workbook reaches pandas as a timestamp, written here yyyy-mm-dd.  A text cell
\* a/b/yy is read month first when a can be a month and day first when it
\* cannot; any other text is not a date.
to_datetime(v) ==
    LET parts == split_on(v, "-", "")
        slash == split_on(v, "/", "")
    IN  IF v # NaN /\ Len(parts) = 3 /\ \A i \in 1..3 : all_digits(parts[i])
           /\ Len(parts[1]) = 4 /\ Len(parts[2]) = 2 /\ Len(parts[3]) = 2
        THEN make_date(parse_int(parts[1], 0), parse_int(parts[2], 0), parse_int(parts[3], 0))
        ELSE IF v # NaN /\ Len(slash) = 3 /\ \A i \in 1..3 : all_digits(slash[i])
                /\ Len(slash[1]) <= 2 /\ Len(slash[2]) <= 2 /\ Len(slash[3]) = 2
        THEN LET a == parse_int(slash[1], 0)
                 b == parse_int(slash[2], 0)
                 y == 2000 + parse_int(slash[3], 0)
             IN  IF a \in 1..12 THEN make_date(y, a, b) ELSE make_date(y, b, a)
        ELSE NaT

\* Series.dt.strftime("%d/%m/%y"); NaT formats to a missing value
strftime_dmy(d) ==
    IF d = NaT THEN NaN
    ELSE two_digits(d % 100) \o "/" \o two_digits((d \div 100) % 100) \o "/" \o
         two_digits((d \div 10000) % 100)

\* pd.to_datetime(value, format='%d/%m/%y' or '%d/%m/%Y', errors='coerce');
\* year_len is 2 for %y (00-68 is 20xx, 69-99 is 19xx) and 4 for %Y
strptime_dmy(v, year_len) ==
    IF v = NaN THEN NaT
    ELSE LET parts == split_on(v, "/", "")
         IN  IF Len(parts) = 3 /\ \A i \in 1..3 : all_digits(parts[i])
                /\ Len(parts[1]) <= 2 /\ Len(parts[2]) <= 2 /\ Len(parts[3]) = year_len
             THEN LET yy == parse_int(parts[3], 0)
                      y == IF year_len = 4 THEN yy
                           ELSE IF yy <= 68 THEN 2000 + yy ELSE 1900 + yy
                  IN  make_date(y, parse_int(parts[2], 0), parse_int(parts[1], 0))
             ELSE NaT

(***************************************************************************)
(* process_tracker_sheet_fast and process_project_tracker                  *)
(***************************************************************************)
tracker_targets ==
    << "HUGO ID", "File Name", "Rounds", "PKG1", "Artwork Release Date",
       "5 Weeks After Artwork Release", "Entered into HUGO Date", "Entered in HUGO?",
       "Store Date", "Packaging Format 1", "Printer Code 1 (LW Code)",
       "Printer Company Name 1", "Vendor e-mail 1", "Printer e-mail 1" >>

mappings ==
    [ t \in Range(tracker_targets) |->
        CASE t = "HUGO ID" -> << "pkg3" >>
          [] t = "File Name" -> << "file name", "filename" >>
          [] t = "Rounds" -> << "rounds" >>
          [] t = "PKG1" -> << "pkg1" >>
          [] t = "Artwork Release Date" -> << "releasedate", "release date" >>
          [] t = "Printer Company Name 1" -> << "pacomments" >>
          [] t = "Vendor e-mail 1" -> << "vendoremail" >>
          [] t = "Printer e-mail 1" -> << "printeremail" >>
          [] t = "5 Weeks After Artwork Release" -> << "5 weeks after artwork release" >>
          [] t = "Entered into HUGO Date" -> << "entered into hugo date" >>
          [] t = "Entered in HUGO?" -> << "entered in hugo?" >>
          [] t = "Store Date" -> << "store date" >>
          [] t = "Packaging Format 1" -> << "packaging format 1" >>
          [] t = "Printer Code 1 (LW Code)" -> << "printer code 1 (lw code)" >> ]

clean_mappings ==
    [ t \in Range(tracker_targets) |->
        [ i \in DOMAIN mappings[t] |-> clean_alnum(mappings[t][i]) ] ]

\* found[target]: the first column one of the target's patterns matches, 0 if none
tracker_found(columns) ==
    [ t \in Range(tracker_targets) |->
        first_index(columns,
                    LAMBDA n : \E i \in DOMAIN clean_mappings[t] :
                                  str_contains(clean_mappings[t][i], clean_alnum(str_lower(n)))) ]

\* a status filter that also lets work in progress through
filter_vals_loose ==
    { "File Release", "File Re-Release R2", "File Re-Release R3", "In Progress" }

filter_vals == { "File Release", "File Re-Release R2", "File Re-Release R3" }

\* a flag that knows the second round only
re_release_status_r2(rounds) ==
    IF str_contains("R2", str_upper(astype_str(rounds))) THEN "Yes" ELSE ""

\* rounds_upper.str.contains('R2|R3').map({True: 'Yes', False: ''})
re_release_status(rounds) ==
    LET up == str_upper(astype_str(rounds))
    IN  IF str_contains("R2", up) \/ str_contains("R3", up) THEN "Yes" ELSE ""

\* the formatted release date of one accepted row
release_date_text(v) ==
    IF v = NaN \/ v = "" THEN "" ELSE strftime_dmy(to_datetime(v))

\* The result frame of one sheet; EmptyFrame stands for the None the function
\* returns (no Rounds column, no accepted row, or an exception).
process_tracker_sheet_fast(sheet) ==
    LET found == tracker_found(sheet.columns)
    IN  IF found["Rounds"] = 0 THEN EmptyFrame
        ELSE
        LET filtered == SelectIdx(sheet.rows,
                                  [ i \in DOMAIN sheet.rows |->
                                      sheet.rows[i][found["Rounds"]] \in filter_vals ], 1)
            cols == SelectIdx(tracker_targets,
                              [ k \in DOMAIN tracker_targets |-> found[tracker_targets[k]] # 0 ], 1)
            cell(r, c) ==
                CASE c = "Re-Release Status" -> re_release_status(r[found["Rounds"]])
                  [] c = "Artwork Release Date" -> release_date_text(r[found[c]])
                  [] OTHER -> IF r[found[c]] = NaN THEN "" ELSE r[found[c]]
        IN  IF filtered = <<>> THEN EmptyFrame
            ELSE [ columns |-> cols \o << "Re-Release Status" >>,
                   rows |-> [ i \in DOMAIN filtered |->
                                [ c \in Range(cols) \cup { "Re-Release Status" } |->
                                    cell(filtered[i], c) ] ] ]

\* a sheet loop in which a later sheet wins a tie
RECURSIVE best_tracker_sheet_last(_, _, _)
best_tracker_sheet_last(file, k, best_result) ==
    IF k > Len(file.sheets) THEN best_result
    ELSE LET result == IF file.sheets[k].readable
                       THEN process_tracker_sheet_fast(file.sheets[k])
                       ELSE EmptyFrame
         IN  best_tracker_sheet_last(file, k + 1,
                                     IF result # EmptyFrame
                                        /\ Len(result.rows) >= Len(best_result.rows)
                                     THEN result ELSE best_result)

\* `for sheet_name in excel_file.sheet_names:` from sheet k on: the result of
\* the first sheet with the most accepted rows
RECURSIVE best_tracker_sheet(_, _, _)
best_tracker_sheet(file, k, best_result) ==
    IF k > Len(file.sheets) THEN best_result
    ELSE LET result == IF file.sheets[k].readable
                       THEN process_tracker_sheet_fast(file.sheets[k])
                       ELSE EmptyFrame
         IN  best_tracker_sheet(file, k + 1,
                                IF result # EmptyFrame /\ Len(result.rows) > Len(best_result.rows)
                                THEN result ELSE best_result)

\* a tracker stage that reports success whatever the sheets gave
process_project_tracker_lenient(file, old) ==
    IF file.path = "" \/ ~file.exists \/ ~file.opens THEN [ ok |-> FALSE, data |-> old ]
    ELSE [ ok |-> TRUE, data |-> best_tracker_sheet(file, 1, EmptyFrame) ]

\* [ok, data]: False with the dataset untouched when the path is empty, the file
\* is missing, unreadable or does not open, or no sheet gives a result
process_project_tracker(file, old) ==
    IF file.path = "" \/ ~file.exists \/ ~file.opens THEN [ ok |-> FALSE, data |-> old ]
    ELSE LET best_result == best_tracker_sheet(file, 1, EmptyFrame)
         IN  IF best_result # EmptyFrame
             THEN [ ok |-> TRUE, data |-> best_result ]
             ELSE [ ok |-> FALSE, data |-> old ]

(***************************************************************************)
(* combine_datasets                                                        *)
(***************************************************************************)
\* ...astype(str).str.extract(r'(\d+)', expand=False).fillna('')
merge_key(v) == LET k == extract_digits(astype_str(v)) IN IF k = NaN THEN "" ELSE k

\* the order of two digit strings, character by character
RECURSIVE str_lt(_, _)
str_lt(a, b) ==
    IF b = "" THEN FALSE
    ELSE IF a = "" THEN TRUE
    ELSE IF Head(a) = Head(b) THEN str_lt(Tail(a), Tail(b))
    ELSE digit_val(Head(a)) < digit_val(Head(b))

RECURSIVE sorted_keys(_)
sorted_keys(K) ==
    IF K = {} THEN <<>>
    ELSE LET m == CHOOSE k \in K : \A o \in K \ { k } : str_lt(k, o)
         IN  << m >> \o sorted_keys(K \ { m })

\* the indexes i of keys, in order, with keys[i] = k
indexes_of(keys, k) ==
    SelectIdx([ i \in DOMAIN keys |-> i ], [ i \in DOMAIN keys |-> keys[i] = k ], 1)

\* a join that keeps only the first tracker row of a key
cross_first(ls, rs) == [ i \in DOMAIN ls |-> << ls[i], rs[1] >> ]

RECURSIVE cross(_, _)
\* every pair of a left and a right index, the left index varying slowest
cross(ls, rs) ==
    IF ls = <<>> THEN <<>>
    ELSE [ j \in DOMAIN rs |-> << Head(ls), rs[j] >> ] \o cross(Tail(ls), rs)

\* pd.merge(step1, step2, on='Merge_Key', how='outer'): for each key in sorted
\* order the pairs <<left index, right index>> of the rows joined, 0 standing
\* for the side that has no row with the key
RECURSIVE outer_pairs(_, _, _)
outer_pairs(ks, key1, key2) ==
    IF ks = <<>> THEN <<>>
    ELSE LET ls == indexes_of(key1, Head(ks))
             rs == indexes_of(key2, Head(ks))
             here == IF rs = <<>> THEN [ i \in DOMAIN ls |-> << ls[i], 0 >> ]
                     ELSE IF ls = <<>> THEN [ j \in DOMAIN rs |-> << 0, rs[j] >> ]
                     ELSE cross(ls, rs)
         IN  here \o outer_pairs(Tail(ks), key1, key2)

\* how='left' in place of how='outer': the keys of the consolidated side only
merge_pairs_left(cons, trk) ==
    LET key1 == [ i \in DOMAIN cons.rows |-> merge_key(cons.rows[i]["Item Number"]) ]
        key2 == [ j \in DOMAIN trk.rows |-> merge_key(trk.rows[j]["PKG1"]) ]
    IN  outer_pairs(sorted_keys(Range(key1) \ { "" }), key1, key2)

\* the pairs joined by combine_datasets: rows with an empty Merge_Key are
\* dropped from both sides before the merge
merge_pairs(cons, trk) ==
    LET key1 == [ i \in DOMAIN cons.rows |-> merge_key(cons.rows[i]["Item Number"]) ]
        key2 == [ j \in DOMAIN trk.rows |-> merge_key(trk.rows[j]["PKG1"]) ]
        K == (Range(key1) \cup Range(key2)) \ { "" }
    IN  outer_pairs(sorted_keys(K), key1, key2)

data_source(pr) ==
    IF pr[1] # 0 /\ pr[2] # 0 THEN "Step1 + Step2"
    ELSE IF pr[1] # 0 THEN "Step1 Only" ELSE "Step2 Only"

\* [ok, data, pairs]: False (combined_data untouched) when either dataset is
\* empty or the tracker result has no PKG1 column (a KeyError, caught)
combine_datasets(cons, trk, old) ==
    IF df_empty(cons) \/ df_empty(trk) \/ ~has_column(trk, "PKG1") \/ ~has_column(cons, "Item Number")
    THEN [ ok |-> FALSE, data |-> old, pairs |-> <<>> ]
    ELSE
    LET pairs == merge_pairs(cons, trk)
        cols == cons.columns \o << "Merge_Key" >> \o trk.columns \o << "Data_Source" >>
        row(pr) ==
            [ c \in Range(cols) |->
                CASE c = "Merge_Key" ->
                       IF pr[1] # 0 THEN merge_key(cons.rows[pr[1]]["Item Number"])
                       ELSE merge_key(trk.rows[pr[2]]["PKG1"])
                  [] c = "Data_Source" -> data_source(pr)
                  [] c \in Range(cons.columns) -> IF pr[1] # 0 THEN cons.rows[pr[1]][c] ELSE NaN
                  [] OTHER -> IF pr[2] # 0 THEN trk.rows[pr[2]][c] ELSE NaN ]
    IN  [ ok |-> TRUE,
          data |-> [ columns |-> cols, rows |-> [ i \in DOMAIN pairs |-> row(pairs[i]) ] ],
          pairs |-> pairs ]

(***************************************************************************)
(* filter_by_date_range                                                    *)
(***************************************************************************)
\* a selection that takes the first release-date column, artwork or not
date_column_any_release(columns) ==
    first_index(columns,
                LAMBDA n : str_contains("release", str_lower(n)) /\ str_contains("date", str_lower(n)))

date_column(columns) ==
    LET has(n, w) == str_contains(w, str_lower(n))
        c1 == first_index(columns,
                          LAMBDA n : has(n, "artwork") /\ has(n, "release") /\ has(n, "date"))
        c2 == first_index(columns, LAMBDA n : has(n, "release") /\ has(n, "date"))
    IN  IF c1 # 0 THEN c1 ELSE c2

\* Parsed_Date of one value: %d/%m/%y first, %d/%m/%Y for what that leaves NaT
parsed_date(v) ==
    LET d == strptime_dmy(v, 2) IN IF d # NaT THEN d ELSE strptime_dmy(v, 4)

\* a filter whose bounds are exclusive
in_date_range_open(v, start, end) ==
    LET d == parsed_date(v) IN d # NaT /\ d > start /\ d < end

in_date_range(v, start, end) ==
    LET d == parsed_date(v) IN d # NaT /\ d >= start /\ d <= end

\* [ok, data]
filter_by_date_range(df, start, end) ==
    IF df_empty(df) THEN [ ok |-> FALSE, data |-> df ]
    ELSE LET k == date_column(df.columns)
         IN  IF k = 0 THEN [ ok |-> TRUE, data |-> df ]
             ELSE [ ok |-> TRUE,
                    data |-> filter_rows(df, LAMBDA r :
                                 in_date_range(r[df.columns[k]], start, end)) ]

(***************************************************************************)
(* format_final_output                                                     *)
(***************************************************************************)
final_columns ==
    << "HUGO ID", "Product Vendor Company Name", "Item Number", "VBU", "Product Name",
       "Brand", "SKU", "Artwork Release Date", "5 Weeks After Artwork Release",
       "Entered into HUGO Date", "Entered in HUGO?", "Store Date",
       "Re-Release Status", "Packaging Format 1", "Printer Company Name 1",
       "Vendor e-mail 1", "Printer e-mail 1", "Printer Code 1 (LW Code)", "File Name" >>

\* mapping[final_col]: every final column maps to the column of its own name,
\* except 'SKU', which maps to 'SKU New/Existing'
final_source(c) == IF c = "SKU" THEN "SKU New/Existing" ELSE c

\* a projection that keeps every row
valid_item_rows_all(df) == df

\* a projection that leaves missing values in place
fillna_kept(v) == v

\* final_df.fillna(''), on one value
fillna_empty(v) == IF v = NaN THEN "" ELSE v

\* final_df[valid_mask], valid_mask = Item Number .astype(str).str.strip() != ''
valid_item_rows(df) == filter_rows(df, LAMBDA r : str_strip(astype_str(r["Item Number"])) # "")

\* [ok, data]
format_final_output(df) ==
    IF df_empty(df) THEN [ ok |-> TRUE, data |-> [ columns |-> final_columns, rows |-> <<>> ] ]
    ELSE
    LET value(r, c) ==
            IF has_column(df, final_source(c))
            THEN fillna_empty(r[final_source(c)])
            ELSE ""
        final_df == [ columns |-> final_columns,
                      rows |-> [ i \in DOMAIN df.rows |->
                                   [ c \in Range(final_columns) |-> value(df.rows[i], c) ] ] ]
    IN  [ ok |-> TRUE, data |-> valid_item_rows(final_df) ]

(***************************************************************************)
(* The sheet samples header inference is run on.                           *)
(***************************************************************************)
MaxSampleRows == 2

MaxCells == 2

CellVocab == { "Item Number", "VBU", "Brand", "Notes", "nan" }

GenericRows == SeqsUpTo(CellVocab, MaxCells)

GenericSamples == SeqsUpTo(GenericRows, MaxSampleRows)

\* A sheet whose row 3 holds the exact canonical header texts, under three rows
\* of unrelated text, with or without a data row below.
CanonicalHeaderRow ==
    << "Item Number", "VBU", "Product Vendor Company Name", "Brand",
       "Product Name", "SKU New/Existing" >>

UnrelatedRows == { << "Notes" >>, << "Report", "2024" >>, << "nan", "Draft" >> }

SampleDataRow == << "1001", "12", "Acme", "Kobalt", "Widget", "New" >>

CanonicalSamples ==
    { pre \o << CanonicalHeaderRow >> \o post :
        pre \in [1..3 -> UnrelatedRows], post \in { <<>>, << SampleDataRow >> } }

(***************************************************************************)
(* The workbooks of the runs explored.                                     *)
(***************************************************************************)
ItemFolder == "A_Production Item List"

\* one sheet: vendor Acme, item 1001, and a row without digits
FileA ==
    [ name |-> "a.xlsx", folder |-> ItemFolder, opens |-> TRUE,
      sheets |-> << [ readable |-> TRUE,
                      rows |-> << << "Vendor Name", "Item #" >>,
                                  << "Acme", "1001" >>,
                                  << "Acme", "n/a" >> >> ] >> ]

\* a sheet without header, then vendor Bolt with items 1001 and 2002
FileB ==
    [ name |-> "b.xlsx", folder |-> ItemFolder, opens |-> TRUE,
      sheets |-> << [ readable |-> TRUE, rows |-> << << "Notes" >>, << "nan" >> >> ],
                    [ readable |-> TRUE,
                      rows |-> << << "Supplier", "Item Number" >>,
                                  << "Bolt", "1001.0" >>,
                                  << "Bolt", "SKU-2002" >> >> ] >> ]

\* a sheet that raises when read, then item 3003 twice under a title row
FileC ==
    [ name |-> "c.xlsx", folder |-> ItemFolder, opens |-> TRUE,
      sheets |-> << [ readable |-> FALSE, rows |-> <<>> ],
                    [ readable |-> TRUE,
                      rows |-> << << "Title", "nan" >>,
                                  << "Vendor", "Item#" >>,
                                  << "Cord", "3003" >>,
                                  << "Dune", "3003-B" >> >> ] >> ]

\* a workbook pd.ExcelFile cannot open
FileD == [ name |-> "d.xlsx", folder |-> ItemFolder, opens |-> FALSE, sheets |-> <<>> ]

FileCatalog == { FileA, FileB, FileC, FileD }

\* item 1001 of vendor Acme under the canonical header row
FileE ==
    [ name |-> "e.xlsx", folder |-> ItemFolder, opens |-> TRUE,
      sheets |-> << [ readable |-> TRUE,
                      rows |-> << CanonicalHeaderRow, SampleDataRow >> ] >> ]

\* item 1001 of vendor Bolt under the canonical header row
FileF ==
    [ name |-> "f.xlsx", folder |-> ItemFolder, opens |-> TRUE,
      sheets |-> << [ readable |-> TRUE,
                      rows |-> << CanonicalHeaderRow,
                                  << "1001", "12", "Bolt", "Kobalt", "Widget", "New" >> >> ] >> ]

\* the pairs of workbooks that both hold item 1001 under different vendors, in
\* either order of the scan
ScenarioFileLists ==
    { << FileA, FileB >>, << FileB, FileA >>, << FileE, FileF >>, << FileF, FileE >> }

MaxFiles == 2

\* the lists of at most MaxFiles different workbooks
FileLists ==
    { fl \in SeqsUpTo(FileCatalog, MaxFiles) :
        \A i, j \in DOMAIN fl : i # j => fl[i] # fl[j] }

NoTracker == [ path |-> "", exists |-> FALSE, opens |-> FALSE, sheets |-> <<>> ]

\* a repeated key, a rejected status, a tracker-only key and a key without digits
TrackerRich ==
    [ path |-> "rich.xlsx", exists |-> TRUE, opens |-> TRUE,
      sheets |-> << [ readable |-> TRUE,
                      columns |-> << "PKG1", "Rounds", "ReleaseDate" >>,
                      rows |-> << << "1001", "File Release", "2024-03-15" >>,
                                  << "1001", "File Re-Release R2", "2024-05-20" >>,
                                  << "2002", "In Progress", "2024-02-01" >>,
                                  << "9009", "File Release", "2024-02-10" >>,
                                  << "n/a", "File Release", NaN >> >> ] >> ]

\* two sheets, every key once
TrackerUnique ==
    [ path |-> "unique.xlsx", exists |-> TRUE, opens |-> TRUE,
      sheets |-> << [ readable |-> TRUE,
                      columns |-> << "PKG1", "Rounds", "ReleaseDate" >>,
                      rows |-> << << "1001", "File Release", "2024-03-15" >>,
                                  << "9009", "File Re-Release R3", "TBD" >> >> ],
                    [ readable |-> TRUE,
                      columns |-> << "PKG1", "Rounds", "ReleaseDate" >>,
                      rows |-> << << "3003", "File Release", "2024-01-05" >> >> ] >> ]

\* no sheet has a Rounds column
TrackerNoRounds ==
    [ path |-> "norounds.xlsx", exists |-> TRUE, opens |-> TRUE,
      sheets |-> << [ readable |-> TRUE,
                      columns |-> << "PKG1", "Status" >>,
                      rows |-> << << "1001", "File Release" >> >> ] >> ]

\* the file was removed after it was selected
TrackerMissing == [ path |-> "gone.xlsx", exists |-> FALSE, opens |-> FALSE, sheets |-> <<>> ]

\* no PKG1 column
TrackerNoKey ==
    [ path |-> "nokey.xlsx", exists |-> TRUE, opens |-> TRUE,
      sheets |-> << [ readable |-> TRUE,
                      columns |-> << "Rounds", "ReleaseDate" >>,
                      rows |-> << << "File Release", "2024-03-15" >> >> ] >> ]

\* no release date column
TrackerNoDate ==
    [ path |-> "nodate.xlsx", exists |-> TRUE, opens |-> TRUE,
      sheets |-> << [ readable |-> TRUE,
                      columns |-> << "PKG1", "Rounds" >>,
                      rows |-> << << "1001", "File Release" >>,
                                  << "3003", "File Release" >> >> ] >> ]

\* release dates on, one day before and one day after the bounds of the first
\* date range, and a date cell that is no date
TrackerBoundary ==
    [ path |-> "boundary.xlsx", exists |-> TRUE, opens |-> TRUE,
      sheets |-> << [ readable |-> TRUE,
                      columns |-> << "PKG1", "Rounds", "Release Date" >>,
                      rows |-> << << "1001", "File Release", "2023-12-31" >>,
                                  << "2002", "File Release", "2024-01-01" >>,
                                  << "3003", "File Re-Release R2", "2024-04-01" >>,
                                  << "9009", "File Re-Release R3", "2024-04-02" >>,
                                  << "4004", "File Release", "TBD" >> >> ] >> ]

\* one row: item 1001 released on 15 March 2024, the date typed as text
TrackerScenario ==
    [ path |-> "scenario.xlsx", exists |-> TRUE, opens |-> TRUE,
      sheets |-> << [ readable |-> TRUE,
                      columns |-> << "Rounds", "PKG1", "ReleaseDate" >>,
                      rows |-> << << "File Release", "1001", "15/03/24" >> >> ] >> ]

TrackerCatalog ==
    { TrackerRich, TrackerUnique, TrackerNoRounds, TrackerMissing, TrackerNoKey, TrackerNoDate,
      TrackerBoundary, TrackerScenario }

\* the date ranges entered: one that holds release dates of the trackers, one
\* that holds none
DateRanges == { << 20240101, 20240401 >>, << 20250101, 20251231 >> }

\* `min(8, ...)`
MaxPoolWorkers == 8

\* the machines: one core, two cores
CpuCounts == { 1, 2 }

(***************************************************************************)
(* The user interface: selecting a tracker, pressing Apply.                *)
(***************************************************************************)
\* select_project_tracker_mac / on_manual_path_change
select_project_tracker ==
    /\ pc = "idle"
    /\ tracker_file = NoTracker
    /\ \E f \in TrackerCatalog : tracker_file' = f
    /\ apply_btn_disabled' = FALSE
    /\ UNCHANGED << hdr_vars, norm_vars, cpu_count, process_threads, filter_raised, fs_files, sharepoint_access_ok, start_date, end_date,
                    data_vars, pool_vars, pc, progress, status, error_msg,
                    reenable_scheduled, started, stage_rows, stage_result, combined_pairs >>

\* apply_date_filter: the dates are valid, the folders are accessible
apply_date_filter ==
    /\ pc = "idle"
    /\ ~apply_btn_disabled
    /\ start_date <= end_date
    /\ sharepoint_access_ok
    /\ apply_btn_disabled' = TRUE
    /\ pc' = "start"
    /\ process_threads' = process_threads + 1
    /\ UNCHANGED << hdr_vars, norm_vars, filter_raised, env_vars, data_vars, pool_vars, progress, status, error_msg,
                    reenable_scheduled, started, stage_rows, stage_result, combined_pairs >>

(***************************************************************************)
(* run_automated_workflow.process                                          *)
(***************************************************************************)
step_digit(k) == SubSeq(DigitAlphabet, k + 1, k + 1)

step_name(k) ==
    CASE k = 1 -> "Scanning folders"
      [] k = 2 -> "Data extraction"
      [] k = 3 -> "Project tracker"
      [] k = 4 -> "Combining datasets"
      [] k = 5 -> "Date filtering"
      [] k = 6 -> "Formatting"
      [] k = 7 -> "Saving files"

\* error_details = f"Step k Failed - <name>: {str(e)}"
error_details(k, e) == "Step " \o step_digit(k) \o " Failed - " \o step_name(k) \o ": " \o e

\* a handler that notes the error and lets the thread go on to the next stage
stage_fails_goes_on(k, e) ==
    /\ stage_result' = [ stage_result EXCEPT ![k] = "failed" ]
    /\ pc' = IF k = 7 THEN "done" ELSE "step" \o step_digit(k + 1)
    /\ process_threads' = IF k = 7 THEN process_threads - 1 ELSE process_threads
    /\ error_msg' = error_details(k, e)
    /\ UNCHANGED << progress, status, reenable_scheduled >>

\* a handler that leaves the progress bar where the failing stage left it
stage_fails_keeps_progress(k, e) ==
    /\ stage_result' = [ stage_result EXCEPT ![k] = "failed" ]
    /\ pc' = "failed"
    /\ status' = "Failed"
    /\ error_msg' = error_details(k, e)
    /\ reenable_scheduled' = TRUE
    /\ process_threads' = process_threads - 1
    /\ UNCHANGED progress

\* a stage that stops at a pause point until the user answers
stage_fails_pauses(k, e) ==
    /\ stage_result' = [ stage_result EXCEPT ![k] = "failed" ]
    /\ pc' = "paused"
    /\ status' = "Paused"
    /\ error_msg' = error_details(k, e)
    /\ UNCHANGED << progress, reenable_scheduled, process_threads >>

\* the stage raises: the handler of process() pushes progress 0 and "Failed",
\* shows the error and schedules the re-enabling of Apply
stage_fails(k, e) ==
    /\ stage_result' = [ stage_result EXCEPT ![k] = "failed" ]
    /\ pc' = "failed"
    /\ progress' = 0
    /\ status' = "Failed"
    /\ error_msg' = error_details(k, e)
    /\ reenable_scheduled' = TRUE
    /\ process_threads' = process_threads - 1

\* the stage returns: update_progress(p), and the next stage's status; after
\* the last stage process() returns
stage_passes(k, p, next_pc, next_status) ==
    /\ stage_result' = [ stage_result EXCEPT ![k] = "ok" ]
    /\ pc' = next_pc
    /\ progress' = p
    /\ status' = next_status
    /\ process_threads' = IF next_pc = "done" THEN process_threads - 1 ELSE process_threads
    /\ UNCHANGED << error_msg, reenable_scheduled >>

process_start ==
    /\ pc = "start"
    /\ pc' = "step1"
    /\ progress' = 10
    /\ status' = "Step 1/7: Scanning folders..."
    /\ UNCHANGED << hdr_vars, norm_vars, process_threads, filter_raised, env_vars, data_vars, pool_vars, apply_btn_disabled, error_msg,
                    reenable_scheduled, started, stage_rows, stage_result, combined_pairs >>

\* Step 1: scan_production_folders
step1_scan ==
    /\ pc = "step1"
    /\ started' = Append(started, 1)
    /\ production_files' = fs_files
    /\ stage_rows' = [ stage_rows EXCEPT ![1] = Len(fs_files) ]
    /\ IF Len(fs_files) = 0
       THEN stage_fails(1, "No production files found in target folders")
       ELSE stage_passes(1, 20, "step2", "Step 2/7: Extracting data...")
    /\ UNCHANGED << hdr_vars, norm_vars, filter_raised, env_vars, consolidated_data, project_tracker_data,
                    combined_data, final_output_data, pool_vars, apply_btn_disabled,
                    combined_pairs >>

\* Step 2, intelligent_data_extraction: every file is submitted to the pool
step2_submit ==
    /\ pc = "step2"
    /\ started' = Append(started, 2)
    /\ futures' = [ i \in DOMAIN production_files |-> "pending" ]
    /\ results' = [ i \in DOMAIN production_files |-> EmptyFrame ]
    /\ all_data' = <<>>
    /\ completed' = 0
    /\ pc' = "pool"
    /\ UNCHANGED << hdr_vars, norm_vars, process_threads, filter_raised, env_vars, data_vars, processing_logs, apply_btn_disabled,
                    progress, status, error_msg, reenable_scheduled, stage_rows, stage_result,
                    combined_pairs >>

\* self.processing_logs.append(...): a line, the thread that wrote it and the
\* count it reports (the time stamp is left out)
log_line(thread, text, n) == [ thread |-> thread, text |-> text, n |-> n ]

\* the lines extract_file logs: "[OK] <file>: <n> records" when it returns
\* records, "[X] <file>: ERROR" when the workbook does not open, else none
extract_file_log(file, result) ==
    IF ~file.opens THEN << log_line("worker", "[X] " \o file.name, 0) >>
    ELSE IF ~df_empty(result) THEN << log_line("worker", "[OK] " \o file.name, Len(result.rows)) >>
    ELSE <<>>

\* max_workers = min(8, os.cpu_count() or 4)
max_workers == Min(MaxPoolWorkers, cpu_count)

\* The executor starts the submitted tasks in order, max_workers at a time:
\* task i can be running only when fewer than max_workers tasks submitted
\* before it are still unfinished.
can_run(i) == Cardinality({ j \in 1..(i - 1) : futures[j] = "pending" }) < max_workers

\* a worker that appends its frame to the list of the pipeline thread itself
worker_extract_file_shared ==
    /\ pc = "pool"
    /\ \E i \in DOMAIN futures :
         /\ futures[i] = "pending"
         /\ can_run(i)
         /\ futures' = [ futures EXCEPT ![i] = "finished" ]
         /\ results' = [ results EXCEPT ![i] = extract_file(production_files[i]) ]
         /\ all_data' = Append(all_data, extract_file(production_files[i]))
    /\ UNCHANGED << hdr_vars, norm_vars, env_vars, data_vars, completed, processing_logs, run_vars >>

\* a pool worker runs extract_file on one file
worker_extract_file ==
    /\ pc = "pool"
    /\ \E i \in DOMAIN futures :
         /\ futures[i] = "pending"
         /\ can_run(i)
         /\ futures' = [ futures EXCEPT ![i] = "finished" ]
         /\ LET result == extract_file(production_files[i])
            IN  /\ results' = [ results EXCEPT ![i] = result ]
                /\ processing_logs' = processing_logs \o extract_file_log(production_files[i], result)
    /\ UNCHANGED << hdr_vars, norm_vars, env_vars, data_vars, all_data, completed, run_vars >>

\* a progress that is the plain percentage of the files done
extraction_progress_percent(n, total_files) == (n * 100) \div total_files

\* progress = 20 + int((completed / total_files) * 20)
extraction_progress(n, total_files) == 20 + ((n * 20) \div total_files)

\* `for future in as_completed(futures):` takes one finished future
collect_result ==
    /\ pc = "pool"
    /\ \E i \in DOMAIN futures :
         /\ futures[i] = "finished"
         /\ futures' = [ futures EXCEPT ![i] = "collected" ]
         /\ all_data' = IF df_empty(results[i]) THEN all_data ELSE Append(all_data, results[i])
    /\ completed' = completed + 1
    /\ IF (completed + 1) % 10 = 0 \/ completed + 1 = Len(production_files)
       THEN /\ progress' = extraction_progress(completed + 1, Len(production_files))
            /\ processing_logs' =
                 Append(processing_logs, log_line("pipeline", "Progress", completed + 1))
       ELSE UNCHANGED << progress, processing_logs >>
    /\ UNCHANGED << hdr_vars, norm_vars, process_threads, filter_raised, env_vars, data_vars, results, apply_btn_disabled, pc,
                    status, error_msg, reenable_scheduled, started, stage_rows, stage_result,
                    combined_pairs >>

\* the pool is drained: consolidation, and the verdict of step 2
step2_consolidate ==
    /\ pc = "pool"
    /\ \A i \in DOMAIN futures : futures[i] = "collected"
    /\ LET data == IF all_data = <<>> THEN consolidated_data ELSE consolidate(all_data)
           ok == all_data # <<>> /\ Len(data.rows) # 0
       IN  /\ consolidated_data' = data
           /\ stage_rows' = [ stage_rows EXCEPT ![2] = IF all_data = <<>> THEN 0 ELSE Len(data.rows) ]
           /\ IF ok
              THEN stage_passes(2, 40, "step3", "Step 3/7: Processing tracker...")
              ELSE stage_fails(2, "No valid data extracted from production files")
    /\ UNCHANGED << hdr_vars, norm_vars, filter_raised, env_vars, production_files, project_tracker_data, combined_data,
                    final_output_data, pool_vars, apply_btn_disabled, started, combined_pairs >>

\* Step 3: process_project_tracker
step3_tracker ==
    /\ pc = "step3"
    /\ started' = Append(started, 3)
    /\ LET r == process_project_tracker(tracker_file, project_tracker_data)
       IN  /\ project_tracker_data' = r.data
           /\ stage_rows' = [ stage_rows EXCEPT ![3] = IF r.ok THEN Len(r.data.rows) ELSE 0 ]
           /\ IF r.ok
              THEN stage_passes(3, 60, "step4", "Step 4/7: Combining data...")
              ELSE stage_fails(3, "Could not process tracker file: " \o tracker_file.path)
    /\ UNCHANGED << hdr_vars, norm_vars, filter_raised, env_vars, production_files, consolidated_data, combined_data,
                    final_output_data, pool_vars, apply_btn_disabled, combined_pairs >>

\* Step 4: combine_datasets
step4_combine ==
    /\ pc = "step4"
    /\ started' = Append(started, 4)
    /\ LET r == combine_datasets(consolidated_data, project_tracker_data, combined_data)
       IN  /\ combined_data' = r.data
           /\ combined_pairs' = r.pairs
           /\ stage_rows' = [ stage_rows EXCEPT ![4] = IF r.ok THEN Len(r.data.rows) ELSE 0 ]
           /\ IF r.ok
              THEN stage_passes(4, 70, "step5", "Step 5/7: Date filtering...")
              ELSE stage_fails(4, "Dataset combination failed")
    /\ UNCHANGED << hdr_vars, norm_vars, filter_raised, env_vars, production_files, consolidated_data,
                    project_tracker_data, final_output_data, pool_vars, apply_btn_disabled >>

\* Step 5: filter_by_date_range
step5_filter ==
    /\ pc = "step5"
    /\ started' = Append(started, 5)
    /\ LET r == filter_by_date_range(combined_data, start_date, end_date)
       IN  /\ combined_data' = r.data
           /\ stage_rows' = [ stage_rows EXCEPT ![5] = Len(r.data.rows) ]
           /\ IF r.ok
              THEN stage_passes(5, 80, "step6", "Step 6/7: Formatting...")
              ELSE stage_fails(5, "Date filtering failed")
    /\ filter_raised' = FALSE
    /\ UNCHANGED << hdr_vars, norm_vars, env_vars, production_files, consolidated_data,
                    project_tracker_data, final_output_data, pool_vars, apply_btn_disabled,
                    combined_pairs >>

\* an internal error of the filter that fails the stage
step5_filter_raises_fatal ==
    /\ pc = "step5"
    /\ ~df_empty(combined_data)
    /\ date_column(combined_data.columns) # 0
    /\ started' = Append(started, 5)
    /\ stage_rows' = [ stage_rows EXCEPT ![5] = Len(combined_data.rows) ]
    /\ stage_fails(5, "Date filtering failed")
    /\ filter_raised' = TRUE
    /\ UNCHANGED << hdr_vars, norm_vars, env_vars, data_vars, pool_vars, apply_btn_disabled,
                    combined_pairs >>

\* Step 5 when filter_by_date_range raises after it selected the date column:
\* `except Exception` logs the error and returns True, self.combined_data was
\* not assigned
step5_filter_raises ==
    /\ pc = "step5"
    /\ ~df_empty(combined_data)
    /\ date_column(combined_data.columns) # 0
    /\ started' = Append(started, 5)
    /\ stage_rows' = [ stage_rows EXCEPT ![5] = Len(combined_data.rows) ]
    /\ stage_passes(5, 80, "step6", "Step 6/7: Formatting...")
    /\ filter_raised' = TRUE
    /\ UNCHANGED << hdr_vars, norm_vars, env_vars, data_vars, pool_vars, apply_btn_disabled,
                    combined_pairs >>

\* Step 6: format_final_output
step6_format ==
    /\ pc = "step6"
    /\ started' = Append(started, 6)
    /\ LET r == format_final_output(combined_data)
       IN  /\ final_output_data' = r.data
           /\ stage_rows' = [ stage_rows EXCEPT ![6] = Len(r.data.rows) ]
           /\ IF r.ok
              THEN stage_passes(6, 90, "step7", "Step 7/7: Saving files...")
              ELSE stage_fails(6, "Output formatting failed")
    /\ UNCHANGED << hdr_vars, norm_vars, filter_raised, env_vars, production_files, consolidated_data,
                    project_tracker_data, combined_data, pool_vars, apply_btn_disabled,
                    combined_pairs >>

\* save_all_outputs: the files written, none when writing raises.  The
\* consolidated data is saved when it is not empty, the final output always.
save_all_outputs(write_ok) ==
    IF ~write_ok THEN 0
    ELSE (IF df_empty(consolidated_data) THEN 0 ELSE 1) + 1

\* Step 7: save_all_outputs; on success progress 100 and status "Complete!"
step7_save ==
    /\ pc = "step7"
    /\ started' = Append(started, 7)
    /\ \E write_ok \in BOOLEAN :
         LET output_files == save_all_outputs(write_ok)
         IN  /\ stage_rows' = [ stage_rows EXCEPT ![7] = output_files ]
             /\ IF output_files # 0
                THEN stage_passes(7, 100, "done", "Complete!")
                ELSE stage_fails(7, "No files were saved")
    /\ UNCHANGED << hdr_vars, norm_vars, filter_raised, env_vars, data_vars, pool_vars, apply_btn_disabled,
                    combined_pairs >>

\* the scheduled `setattr(self.apply_btn, 'disabled', False)` runs on the UI thread
clock_reenable_apply ==
    /\ reenable_scheduled
    /\ reenable_scheduled' = FALSE
    /\ apply_btn_disabled' = FALSE
    /\ UNCHANGED << hdr_vars, norm_vars, process_threads, filter_raised, env_vars, data_vars, pool_vars, pc, progress, status,
                    error_msg, started, stage_rows, stage_result, combined_pairs >>

(***************************************************************************)
(* Specifications.                                                         *)
(***************************************************************************)
HeaderIdle ==
    /\ df_sample = <<>>
    /\ row_idx = 0
    /\ best_row = None
    /\ best_score = 0
    /\ row_score = 0
    /\ hdr_pc = "returned"
    /\ hdr_result = None

\* MacDataProcessor.__init__ and build(): no tracker, empty datasets, Apply
\* disabled, nothing started
AppFresh ==
    /\ tracker_file = NoTracker
    /\ sharepoint_access_ok \in BOOLEAN
    /\ \E r \in DateRanges : start_date = r[1] /\ end_date = r[2]
    /\ production_files = <<>>
    /\ consolidated_data = EmptyFrame
    /\ project_tracker_data = EmptyFrame
    /\ combined_data = EmptyFrame
    /\ final_output_data = EmptyFrame
    /\ apply_btn_disabled = TRUE
    /\ pc = "idle"
    /\ progress = 0
    /\ status = "Initializing..."
    /\ error_msg = ""
    /\ reenable_scheduled = FALSE
    /\ futures = <<>>
    /\ results = <<>>
    /\ all_data = <<>>
    /\ completed = 0
    /\ processing_logs = <<>>
    /\ started = <<>>
    /\ stage_rows = [ k \in 1..7 |-> -1 ]
    /\ stage_result = [ k \in 1..7 |-> "none" ]
    /\ combined_pairs = <<>>
    /\ process_threads = 0
    /\ filter_raised = FALSE

\* no key is being normalized
NormIdle == norm_cell = "" /\ norm_keys = <<>>

\* the application is started in an environment chosen freely, on a two-core
\* machine
AppInit == fs_files \in FileLists /\ cpu_count = 2 /\ AppFresh

Init == HeaderIdle /\ NormIdle /\ AppInit

Next ==
    \/ select_project_tracker
    \/ apply_date_filter
    \/ process_start
    \/ step1_scan
    \/ step2_submit
    \/ worker_extract_file
    \/ collect_result
    \/ step2_consolidate
    \/ step3_tracker
    \/ step4_combine
    \/ step5_filter
    \/ step6_format
    \/ step7_save
    \/ clock_reenable_apply

Spec == Init /\ [][Next]_vars

\* the positions of the workflow thread
Positions == { "idle", "start", "step1", "step2", "pool", "step3", "step4", "step5",
               "step6", "step7", "done", "failed" }

\* The workflow thread started by threading.Thread(target=process) runs on: at
\* the start, at a stage, or at the end of the `as_completed` loop it moves to
\* another position.  Every step of the thread at these positions is enabled
\* by the position alone and changes pc.
thread_runs ==
    /\ \/ pc \in { "start", "step1", "step2", "step3", "step4", "step5", "step6", "step7" }
       \/ pc = "pool" /\ \A i \in DOMAIN futures : futures[i] = "collected"
    /\ pc' \in Positions \ { pc }

\* `for future in as_completed(futures)` takes a finished future
thread_collects ==
    /\ pc = "pool"
    /\ \E i \in DOMAIN futures :
         futures[i] = "finished" /\ futures' = [ futures EXCEPT ![i] = "collected" ]

\* a task submitted to the ThreadPoolExecutor is run to its end by a worker
worker_finishes ==
    /\ pc = "pool"
    /\ \E i \in DOMAIN futures :
         futures[i] = "pending" /\ futures' = [ futures EXCEPT ![i] = "finished" ]

\* The workflow thread, once started, keeps running, and every file worker
\* finishes.  Nothing is required of the user.
LiveSpec ==
    Spec /\ WF_pc(thread_runs) /\ WF_futures(thread_collects) /\ WF_futures(worker_finishes)

\* LiveSpec, and the Kivy clock runs every callback given to
\* Clock.schedule_once on the next frame of the UI loop
RestartSpec == LiveSpec /\ WF_apply_btn_disabled(clock_reenable_apply)

\* find_header_row_fast on its own, over the sheet samples
HeaderInit ==
    /\ df_sample \in GenericSamples \cup CanonicalSamples
    /\ row_idx = 0
    /\ best_row = None
    /\ best_score = 0
    /\ row_score = 0
    /\ hdr_pc = "loop"
    /\ hdr_result = None
    /\ NormIdle
    /\ processing_logs = <<>>
    /\ fs_files = <<>>
    /\ tracker_file = NoTracker
    /\ sharepoint_access_ok = FALSE
    /\ start_date = 20240101
    /\ end_date = 20240401
    /\ production_files = <<>>
    /\ consolidated_data = EmptyFrame
    /\ project_tracker_data = EmptyFrame
    /\ combined_data = EmptyFrame
    /\ final_output_data = EmptyFrame
    /\ apply_btn_disabled = TRUE
    /\ pc = "idle"
    /\ progress = 0
    /\ status = "Initializing..."
    /\ error_msg = ""
    /\ reenable_scheduled = FALSE
    /\ futures = <<>>
    /\ results = <<>>
    /\ all_data = <<>>
    /\ completed = 0
    /\ started = <<>>
    /\ stage_rows = [ k \in 1..7 |-> -1 ]
    /\ stage_result = [ k \in 1..7 |-> "none" ]
    /\ combined_pairs = <<>>
    /\ cpu_count = 1
    /\ process_threads = 0
    /\ filter_raised = FALSE

HeaderNext ==
    \/ find_header_row_step /\ UNCHANGED << env_vars, data_vars, pool_vars, run_vars, norm_vars >>
    \/ find_header_row_return /\ UNCHANGED << env_vars, data_vars, pool_vars, run_vars, norm_vars >>

HeaderSpec == HeaderInit /\ [][HeaderNext]_vars

(***************************************************************************)
(* The business-key normalization on its own: the cell texts of at most    *)
(* MaxCellLen characters, normalized up to MaxNormalizations times by the  *)
(* sites of the code that normalize a key.                                 *)
(***************************************************************************)
MaxCellLen == 3

MaxNormalizations == 3

CellAlphabet == { "1", "0", "7", "a", "-", " " }

RECURSIVE CellTexts(_)
CellTexts(n) ==
    IF n = 0 THEN { "" }
    ELSE LET shorter == CellTexts(n - 1)
         IN  shorter \cup { t \o c : t \in shorter, c \in CellAlphabet }

\* the value the next normalization is applied to
norm_last == IF norm_keys = <<>> THEN norm_cell ELSE norm_keys[Len(norm_keys)].key

\* ['Item Number'].astype(str).str.extract(r'(\d+)', expand=False), as in
\* extract_columns_fast and extract_file
normalize_extract ==
    /\ Len(norm_keys) < MaxNormalizations
    /\ norm_keys' = Append(norm_keys, [ site |-> "extract",
                                        key |-> extract_digits(astype_str(norm_last)) ])
    /\ UNCHANGED norm_cell

\* step['Merge_Key'] = ...str.extract(r'(\d+)', expand=False).fillna(''), as in
\* combine_datasets
normalize_merge_key ==
    /\ Len(norm_keys) < MaxNormalizations
    /\ norm_keys' = Append(norm_keys, [ site |-> "merge", key |-> merge_key(norm_last) ])
    /\ UNCHANGED norm_cell

NormInit ==
    /\ HeaderIdle
    /\ fs_files = <<>>
    /\ cpu_count = 1
    /\ AppFresh
    /\ norm_cell \in CellTexts(MaxCellLen) \cup { NaN }
    /\ norm_keys = <<>>

NormNext ==
    \/ normalize_extract /\ UNCHANGED << hdr_vars, env_vars, data_vars, pool_vars, run_vars >>
    \/ normalize_merge_key /\ UNCHANGED << hdr_vars, env_vars, data_vars, pool_vars, run_vars >>

NormSpec == NormInit /\ [][NormNext]_vars

\* the application started on the folders of the end-to-end scenario
ScenarioInit ==
    HeaderIdle /\ NormIdle /\ fs_files \in ScenarioFileLists /\ cpu_count = 2 /\ AppFresh

ScenarioSpec == ScenarioInit /\ [][Next]_vars

(***************************************************************************)
(* The user at the window while a run is going on.                         *)
(***************************************************************************)
MaxThreads == 2

\* on_manual_path_change (and the file dialog alike), at any moment: the text is
\* the path of an existing workbook, which becomes the tracker, and Apply is
\* enabled whatever the workflow thread is doing
on_manual_path_change ==
    /\ pc # "idle"
    /\ \E f \in TrackerCatalog :
         /\ f.exists
         /\ tracker_file' = f
    /\ apply_btn_disabled' = FALSE
    /\ UNCHANGED << hdr_vars, norm_vars, fs_files, sharepoint_access_ok, start_date, end_date,
                    cpu_count, data_vars, pool_vars, pc, progress, status, error_msg,
                    reenable_scheduled, started, stage_rows, stage_result, combined_pairs,
                    process_threads, filter_raised >>

\* apply_date_filter pressed while the thread of an earlier Apply is running:
\* run_automated_workflow starts one more thread on the same fields.  The
\* model counts the thread and goes on following the steps of the first.
apply_date_filter_running ==
    /\ pc \notin { "idle", "done", "failed" }
    /\ ~apply_btn_disabled
    /\ start_date <= end_date
    /\ sharepoint_access_ok
    /\ process_threads < MaxThreads
    /\ apply_btn_disabled' = TRUE
    /\ process_threads' = process_threads + 1
    /\ UNCHANGED << hdr_vars, norm_vars, env_vars, data_vars, pool_vars, pc, progress, status,
                    error_msg, reenable_scheduled, started, stage_rows, stage_result,
                    combined_pairs, filter_raised >>

UiNext ==
    \/ Next
    \/ on_manual_path_change
    \/ apply_date_filter_running

\* the application started on one workbook, on a two-core machine
UiInit ==
    /\ HeaderIdle
    /\ NormIdle
    /\ fs_files = << FileA >>
    /\ cpu_count = 2
    /\ AppFresh

UiSpec == UiInit /\ [][UiNext]_vars

(***************************************************************************)
(* Runs in which the date filter may hit an internal error.                *)
(***************************************************************************)
\* the application started on one workbook
FaultInit ==
    /\ HeaderIdle
    /\ NormIdle
    /\ fs_files \in { << FileA >>, << FileB >> }
    /\ cpu_count = 2
    /\ AppFresh

FaultNext ==
    \/ Next
    \/ step5_filter_raises

FaultSpec == FaultInit /\ [][FaultNext]_vars

(***************************************************************************)
(* filter_by_date_range on its own, over frames with all sorts of column   *)
(* names.                                                                  *)
(***************************************************************************)
MaxFilterColumns == 3

ColumnNames ==
    { "Item Number", "Artwork Release Date", "Release Date", "RELEASEDATE", "Artwork Date",
      "Date of Artwork Release", "Store Date" }

\* a date inside the range 2024-01-01 .. 2024-04-01 and one outside of it
DateTexts == { "15/03/24", "15/03/25" }

\* the frames of one row and at most MaxFilterColumns different columns
FilterFrames ==
    UNION { { [ columns |-> cols, rows |-> << row >> ] : row \in [ Range(cols) -> DateTexts ] } :
            cols \in { c \in SeqsUpTo(ColumnNames, MaxFilterColumns) :
                         c # <<>> /\ \A i, j \in DOMAIN c : i # j => c[i] # c[j] } }

\* the state in which process() calls filter_by_date_range, on any such frame
FilterInit ==
    /\ HeaderIdle
    /\ NormIdle
    /\ fs_files = <<>>
    /\ cpu_count = 1
    /\ tracker_file = NoTracker
    /\ sharepoint_access_ok = TRUE
    /\ start_date = 20240101
    /\ end_date = 20240401
    /\ production_files = <<>>
    /\ consolidated_data = EmptyFrame
    /\ project_tracker_data = EmptyFrame
    /\ combined_data \in FilterFrames
    /\ final_output_data = EmptyFrame
    /\ apply_btn_disabled = TRUE
    /\ pc = "step5"
    /\ progress = 70
    /\ status = "Step 5/7: Date filtering..."
    /\ error_msg = ""
    /\ reenable_scheduled = FALSE
    /\ futures = <<>>
    /\ results = <<>>
    /\ all_data = <<>>
    /\ completed = 0
    /\ processing_logs = <<>>
    /\ started = << 1, 2, 3, 4 >>
    /\ stage_rows = [ k \in 1..7 |-> IF k <= 4 THEN Len(combined_data.rows) ELSE -1 ]
    /\ stage_result = [ k \in 1..7 |-> IF k <= 4 THEN "ok" ELSE "none" ]
    /\ combined_pairs = <<>>
    /\ process_threads = 1
    /\ filter_raised = FALSE

FilterNext == step5_filter

FilterSpec == FilterInit /\ [][FilterNext]_vars

(***************************************************************************)
(* process_project_tracker on its own, over workbooks made of a few kinds  *)
(* of sheet.                                                               *)
(***************************************************************************)
MaxSheets == 3

\* a sheet that raises when read; a sheet without Rounds column; a sheet with
\* no accepted status; a sheet with one accepted row; two sheets with two
SheetKinds ==
    { [ readable |-> FALSE, columns |-> <<>>, rows |-> <<>> ],
      [ readable |-> TRUE, columns |-> << "PKG1", "Status" >>,
        rows |-> << << "5005", "File Release" >> >> ],
      [ readable |-> TRUE, columns |-> << "PKG1", "Rounds" >>,
        rows |-> << << "6006", "In Progress" >>, << "6007", "file release" >> >> ],
      [ readable |-> TRUE, columns |-> << "Rounds", "PKG1" >>,
        rows |-> << << "On Hold", "1002" >>, << "File Re-Release R2", "2002" >> >> ],
      [ readable |-> TRUE, columns |-> << "PKG1", "Rounds" >>,
        rows |-> << << "3003", "File Release" >>, << "3004", "File Re-Release R3" >> >> ],
      [ readable |-> TRUE, columns |-> << "PKG1", "Rounds" >>,
        rows |-> << << "4004", "File Release" >>, << "4005", "Draft" >>,
                    << "4006", "File Release" >> >> ] }

\* the workbooks of at most MaxSheets sheets, and the paths that give no
\* workbook: none entered, a file that is gone, a file that does not open
SheetTrackers ==
    { [ path |-> "sheets.xlsx", exists |-> TRUE, opens |-> TRUE, sheets |-> ss ] :
        ss \in SeqsUpTo(SheetKinds, MaxSheets) }
    \cup { NoTracker, TrackerMissing,
           [ path |-> "broken.xlsx", exists |-> TRUE, opens |-> FALSE, sheets |-> <<>> ] }

\* the tracker records of an earlier run
OldTrackerData ==
    [ columns |-> << "PKG1", "Rounds", "Re-Release Status" >>,
      rows |-> << [ c \in { "PKG1", "Rounds", "Re-Release Status" } |->
                      CASE c = "PKG1" -> "7007"
                        [] c = "Rounds" -> "File Release"
                        [] OTHER -> "" ] >> ]

\* the records extract_file gives for a.xlsx: item 1001 of vendor Acme, the
\* row of item n/a dropped
ExtractedA ==
    [ columns |-> target_columns \o << "Source_File", "Source_Folder" >>,
      rows |-> << [ c \in Range(target_columns) \cup { "Source_File", "Source_Folder" } |->
                      CASE c = "Item Number" -> "1001"
                        [] c = "Product Vendor Company Name" -> "Acme"
                        [] c = "Source_File" -> "a.xlsx"
                        [] c = "Source_Folder" -> ItemFolder
                        [] OTHER -> "" ] >> ]

\* the state in which process() calls process_project_tracker: the records of
\* a.xlsx are consolidated, the tracker data is empty or that of an earlier run
TrackerInit ==
    /\ HeaderIdle
    /\ NormIdle
    /\ fs_files = << FileA >>
    /\ cpu_count = 1
    /\ sharepoint_access_ok = TRUE
    /\ start_date = 20240101
    /\ end_date = 20240401
    /\ production_files = fs_files
    /\ consolidated_data = ExtractedA
    /\ combined_data = EmptyFrame
    /\ final_output_data = EmptyFrame
    /\ apply_btn_disabled = TRUE
    /\ pc = "step3"
    /\ progress = 40
    /\ status = "Step 3/7: Processing tracker..."
    /\ error_msg = ""
    /\ reenable_scheduled = FALSE
    /\ futures = << "collected" >>
    /\ results = << ExtractedA >>
    /\ all_data = << ExtractedA >>
    /\ completed = 1
    /\ processing_logs = << log_line("worker", "[OK] a.xlsx", 1),
                            log_line("pipeline", "Progress", 1) >>
    /\ started = << 1, 2 >>
    /\ stage_rows = [ k \in 1..7 |-> IF k <= 2 THEN 1 ELSE -1 ]
    /\ stage_result = [ k \in 1..7 |-> IF k <= 2 THEN "ok" ELSE "none" ]
    /\ combined_pairs = <<>>
    /\ process_threads = 1
    /\ filter_raised = FALSE
    /\ tracker_file \in SheetTrackers
    /\ project_tracker_data \in { EmptyFrame, OldTrackerData }

TrackerNext == step3_tracker

TrackerSpec == TrackerInit /\ [][TrackerNext]_vars

(***************************************************************************)
(* intelligent_data_extraction on its own, over long lists of workbooks.   *)
(***************************************************************************)
\* a workbook whose one sheet has no header row
BlankFile(n) ==
    [ name |-> "blank" \o two_digits(n) \o ".xlsx", folder |-> ItemFolder, opens |-> TRUE,
      sheets |-> << [ readable |-> TRUE, rows |-> << << "Notes" >> >> ] >> ]

\* a.xlsx followed by blank workbooks, n workbooks in all
many_files(n) == [ i \in 1..n |-> IF i = 1 THEN FileA ELSE BlankFile(i) ]

ManyFiles == 11

\* the state in which process() calls intelligent_data_extraction: step 1 found
\* the workbooks, status and progress are those of step 2
ExtractionInit ==
    /\ HeaderIdle
    /\ NormIdle
    /\ \E n \in 1..ManyFiles : fs_files = many_files(n)
    /\ cpu_count \in CpuCounts
    /\ tracker_file = TrackerUnique
    /\ sharepoint_access_ok = TRUE
    /\ start_date = 20240101
    /\ end_date = 20240401
    /\ production_files = fs_files
    /\ consolidated_data = EmptyFrame
    /\ project_tracker_data = EmptyFrame
    /\ combined_data = EmptyFrame
    /\ final_output_data = EmptyFrame
    /\ apply_btn_disabled = TRUE
    /\ pc = "step2"
    /\ progress = 20
    /\ status = "Step 2/7: Extracting data..."
    /\ error_msg = ""
    /\ reenable_scheduled = FALSE
    /\ futures = <<>>
    /\ results = <<>>
    /\ all_data = <<>>
    /\ completed = 0
    /\ processing_logs = <<>>
    /\ started = << 1 >>
    /\ stage_rows = [ k \in 1..7 |-> IF k = 1 THEN Len(fs_files) ELSE -1 ]
    /\ stage_result = [ k \in 1..7 |-> IF k = 1 THEN "ok" ELSE "none" ]
    /\ combined_pairs = <<>>
    /\ process_threads = 1
    /\ filter_raised = FALSE

ExtractionNext ==
    \/ step2_submit
    \/ worker_extract_file
    \/ collect_result
    \/ step2_consolidate

ExtractionSpec == ExtractionInit /\ [][ExtractionNext]_vars

(***************************************************************************)
(* Properties.                                                             *)
(***************************************************************************)
\* the canonical fields that have a matching cell in a row
fields_matched(row) ==
    LET headers == row_headers(row)
    IN  { t \in Range(target_columns) :
            \E i \in DOMAIN headers :
                headers[i] # "nan" /\ headers[i] # "" /\ matches_target(t, clean_alnum(headers[i])) }

Max(S) == CHOOSE m \in S : \A o \in S : o <= m

\* C1: on a sample whose rows 0-2 hold unrelated text and whose row 3 holds the
\* exact canonical header texts, find_header_row_fast returns row index 3.
C1_CanonicalHeaderFound ==
    (df_sample \in CanonicalSamples /\ hdr_pc = "returned") => hdr_result = 3

\* C2: a row in which exactly one canonical field has a matching cell is never
\* returned as the header row, and a sample whose best row has exactly two
\* canonical fields matched is accepted: that row is returned.
C2_ThresholdBoundary ==
    (hdr_pc = "returned" /\ df_sample # <<>>) =>
        LET n == [ i \in DOMAIN df_sample |-> Cardinality(fields_matched(df_sample[i])) ]
            top == Max(Range(n))
        IN  /\ hdr_result # None => n[hdr_result + 1] # 1
            /\ top = 2 =>
                 /\ hdr_result # None
                 /\ n[hdr_result + 1] = 2
                 /\ \A j \in 1..hdr_result : n[j] < 2

\* the normalized (digits-only) Item Number of a record
normalized_item(r) == merge_key(r["Item Number"])

\* C3: after intelligent_data_extraction succeeds, consolidated_data holds no two
\* records with the same normalized Item Number, whatever the files and the
\* order in which their results were collected.
C3_DedupInvariant ==
    stage_result[2] = "ok" =>
        \A i, j \in DOMAIN consolidated_data.rows :
            i # j => normalized_item(consolidated_data.rows[i])
                       # normalized_item(consolidated_data.rows[j])

\* extraction succeeded on two files that both hold a record of the same item
C3_Witness ==
    /\ stage_result[2] = "ok"
    /\ \E a, b \in DOMAIN all_data :
         /\ a # b
         /\ \E x \in DOMAIN all_data[a].rows, y \in DOMAIN all_data[b].rows :
              normalized_item(all_data[a].rows[x]) = normalized_item(all_data[b].rows[y])

\* the state right after combine_datasets returned True: combined_data is the
\* merge of consolidated_data and project_tracker_data
combine_done == pc = "step5"

left_keys == [ i \in DOMAIN consolidated_data.rows |-> normalized_item(consolidated_data.rows[i]) ]

right_keys ==
    [ j \in DOMAIN project_tracker_data.rows |-> merge_key(project_tracker_data.rows[j]["PKG1"]) ]

unique_nonempty(keys) ==
    /\ \A i \in DOMAIN keys : keys[i] # ""
    /\ \A i, j \in DOMAIN keys : i # j => keys[i] # keys[j]

\* the number of reconciled rows an input record appears in
rows_of_left(i) == Cardinality({ p \in DOMAIN combined_pairs : combined_pairs[p][1] = i })

rows_of_right(j) == Cardinality({ p \in DOMAIN combined_pairs : combined_pairs[p][2] = j })

tagged(tag) ==
    Cardinality({ p \in DOMAIN combined_data.rows : combined_data.rows[p]["Data_Source"] = tag })

\* C4: when the normalized keys are non-empty and unique within each side, every
\* input record is in exactly one reconciled row and the rows tagged both,
\* consolidated only and tracker only number |consolidated| + |tracker| - |common keys|.
C4_JoinCompleteness ==
    (combine_done /\ unique_nonempty(left_keys) /\ unique_nonempty(right_keys)) =>
        /\ \A i \in DOMAIN left_keys : rows_of_left(i) = 1
        /\ \A j \in DOMAIN right_keys : rows_of_right(j) = 1
        /\ tagged("Step1 + Step2") + tagged("Step1 Only") + tagged("Step2 Only")
             = Len(left_keys) + Len(right_keys)
                 - Cardinality(Range(left_keys) \cap Range(right_keys))
        /\ Len(combined_data.rows) = Len(combined_pairs)

\* a join with unique keys that has a row of each of the three kinds
C4_Witness ==
    /\ combine_done
    /\ unique_nonempty(left_keys) /\ unique_nonempty(right_keys)
    /\ tagged("Step1 + Step2") > 0 /\ tagged("Step1 Only") > 0 /\ tagged("Step2 Only") > 0

\* C5 as stated: each input record of either side, as the earlier stages hand
\* them over, appears in exactly one row of the reconciled output.
C5_ExactlyOneRow ==
    combine_done =>
        /\ \A i \in DOMAIN left_keys : rows_of_left(i) = 1
        /\ \A j \in DOMAIN right_keys : rows_of_right(j) = 1

\* C5 amended: a tracker record appears in exactly one row when its key has a
\* digit and in none when it has not; a consolidated record appears in one row
\* per tracker record of its key, and in one row when there is none.
C5_RowsPerRecord ==
    combine_done =>
        /\ \A j \in DOMAIN right_keys :
             rows_of_right(j) = IF right_keys[j] = "" THEN 0 ELSE 1
        /\ \A i \in DOMAIN left_keys :
             LET n == Cardinality({ j \in DOMAIN right_keys : right_keys[j] = left_keys[i] })
             IN  rows_of_left(i) = IF n = 0 THEN 1 ELSE n

\* a join in which a tracker key has no digit and another is repeated
C5_Witness ==
    /\ combine_done
    /\ \E j \in DOMAIN right_keys : right_keys[j] = "" /\ rows_of_right(j) = 0
    /\ \E i \in DOMAIN left_keys : rows_of_left(i) = 2

\* C6: the stages start in the order 1..7, each only after the one before it
\* returned, and after a stage failed no later stage is started.
C6_StageOrder ==
    /\ \A n \in DOMAIN started : started[n] = n
    /\ \A n \in DOMAIN started : n > 1 => stage_result[n - 1] = "ok"
    /\ \A k \in 1..7 : stage_result[k] # "none" => k \in Range(started)
    /\ \A k \in 1..7 : stage_result[k] = "failed" => (Len(started) = k /\ pc = "failed")

\* a run that failed at the combine stage, after three stages that returned
C6_Witness == stage_result[4] = "failed" /\ started = << 1, 2, 3, 4 >>

\* C7 as stated: a run in which any stage produced zero rows never reaches the
\* success state.
C7_EveryStageFailFast == pc = "done" => \A k \in 1..7 : stage_rows[k] # 0

\* C7 amended: the scan, extraction, tracker, combine and save stages fail the
\* run when they produce nothing; the date filter and the projection do not, and
\* a run whose filter keeps no row still reaches the success state.
FailFastStages == { 1, 2, 3, 4, 7 }

C7_FailFastStages ==
    /\ \A k \in FailFastStages : stage_rows[k] = 0 => (pc = "failed" /\ stage_result[k] = "failed")
    /\ pc = "done" => \A k \in FailFastStages : stage_rows[k] > 0
    /\ \A k \in { 5, 6 } : stage_rows[k] = 0 => stage_result[k] = "ok"

\* a run that completed although the date filter and the projection kept no row
C7_Witness == pc = "done" /\ status = "Complete!" /\ stage_rows[5] = 0 /\ stage_rows[6] = 0

\* C8: when a stage fails, the last progress pushed is 0, the last status is
\* 'Failed', and the error shown names the stage that failed, and no other.
C8_FailureState ==
    \A k \in 1..7 :
        stage_result[k] = "failed" =>
            /\ progress = 0
            /\ status = "Failed"
            /\ \A j \in 1..7 :
                 str_contains("Step " \o step_digit(j) \o " Failed", error_msg) <=> j = k
            /\ \A j \in 1..7 : j # k => stage_result[j] # "failed"

\* a run that failed at the tracker stage, whose progress had reached 40
C8_Witness == stage_result[3] = "failed" /\ pc = "failed" /\ stage_result[2] = "ok"

\* C9: after format_final_output succeeds, every record of final_output_data has
\* an Item Number that is not empty once trimmed.
C9_ItemNumberNonEmpty ==
    stage_result[6] = "ok" =>
        \A i \in DOMAIN final_output_data.rows :
            /\ final_output_data.rows[i]["Item Number"] # NaN
            /\ str_strip(final_output_data.rows[i]["Item Number"]) # ""

\* the projection ran on rows of which one is present on the tracker side only
C9_Witness ==
    /\ stage_result[6] = "ok"
    /\ \E p \in DOMAIN combined_data.rows :
         /\ combined_data.rows[p]["Data_Source"] = "Step2 Only"
         /\ combined_data.rows[p]["Item Number"] = NaN
    /\ Len(final_output_data.rows) > 0

\* C10: after format_final_output succeeds, final_output_data has exactly the 19
\* final columns in their order, every record has exactly these fields, a field
\* whose source column is absent holds '', and no field holds a missing value.
C10_FixedSchema ==
    stage_result[6] = "ok" =>
        /\ final_output_data.columns = final_columns
        /\ Len(final_output_data.columns) = 19
        /\ \A i \in DOMAIN final_output_data.rows :
             /\ DOMAIN final_output_data.rows[i] = Range(final_columns)
             /\ \A c \in Range(final_columns) :
                  /\ final_output_data.rows[i][c] # NaN
                  /\ ~has_column(combined_data, final_source(c))
                       => final_output_data.rows[i][c] = ""

\* the projection kept a record built from rows that lack the HUGO ID column and
\* hold missing values
C10_Witness ==
    /\ stage_result[6] = "ok"
    /\ Len(final_output_data.rows) > 0
    /\ ~has_column(combined_data, "HUGO ID")
    /\ \E p \in DOMAIN combined_data.rows, c \in Range(combined_data.columns) :
         combined_data.rows[p][c] = NaN

\* the reconciled data handed to filter_by_date_range in the run
filter_input == combine_datasets(consolidated_data, project_tracker_data, EmptyFrame).data

\* the release date of row i of the filter's input, NaT when it does not parse
release_date_of(i) ==
    parsed_date(filter_input.rows[i][filter_input.columns[date_column(filter_input.columns)]])

dated(d) == \E i \in DOMAIN filter_input.rows : release_date_of(i) = d

\* C11: when a release-date column is found, filter_by_date_range keeps exactly
\* the rows whose value parses to a date d with start <= d <= end, in their
\* order: the rows dated start and end stay, the rows dated a day outside go.
C11_DateBoundaryInclusive ==
    (stage_result[5] = "ok" /\ date_column(filter_input.columns) # 0) =>
        combined_data.rows =
            SelectIdx(filter_input.rows,
                      [ i \in DOMAIN filter_input.rows |->
                          /\ release_date_of(i) # NaT
                          /\ start_date <= release_date_of(i)
                          /\ release_date_of(i) <= end_date ], 1)

\* the filter ran over rows dated on each bound, a day outside each bound, and
\* a row whose date does not parse
C11_Witness ==
    /\ stage_result[5] = "ok"
    /\ date_column(filter_input.columns) # 0
    /\ start_date = 20240101 /\ end_date = 20240401
    /\ dated(20231231) /\ dated(20240101) /\ dated(20240401) /\ dated(20240402) /\ dated(NaT)
    /\ Len(combined_data.rows) = 2

\* k is the first maximal run of digits of the text s
is_first_run(k, s) ==
    \E i \in 1..Len(s) :
        /\ \A h \in 1..(i - 1) : SubSeq(s, h, h) \notin DigitChars
        /\ \E j \in i..Len(s) :
             /\ SubSeq(s, i, j) = k
             /\ \A h \in i..j : SubSeq(s, h, h) \in DigitChars
             /\ j < Len(s) => SubSeq(s, j + 1, j + 1) \notin DigitChars

has_digit(s) == \E h \in 1..Len(s) : SubSeq(s, h, h) \in DigitChars

\* the raw item-number cells of a workbook: for every readable sheet in which a
\* header row is found and a column maps to Item Number, the cells of that
\* column below the header, as <<sheet, row, text>>
item_cells(file) ==
    IF ~file.opens THEN {}
    ELSE UNION {
           LET sheet == file.sheets[k]
               header_row == IF sheet.readable /\ sheet.rows # <<>>
                             THEN find_header_row_fast(read_sample(sheet)) ELSE None
           IN  IF header_row = None THEN {}
               ELSE LET df == read_full(sheet, header_row)
                        col == mapped_column("Item Number", df.names)
                    IN  IF col = 0 THEN {}
                        ELSE { << k, i, astype_str(df.cells[i][col]) >> : i \in DOMAIN df.cells }
           : k \in DOMAIN file.sheets }

\* C12: every record a worker returns, and every record of consolidated_data,
\* has an Item Number that is a non-empty string of digits and is the first run
\* of digits of a raw item-number cell of its file; a cell without digit gives
\* no record.
C12_OnlyDigitKeys ==
    /\ \A n \in DOMAIN results :
         LET cells == item_cells(production_files[n])
         IN  /\ \A x \in DOMAIN results[n].rows :
                  LET key == results[n].rows[x]["Item Number"]
                  IN  /\ key # NaN /\ all_digits(key)
                      /\ \E c \in cells : is_first_run(key, c[3])
             /\ Len(results[n].rows) <= Cardinality({ c \in cells : has_digit(c[3]) })
    /\ \A x \in DOMAIN consolidated_data.rows :
         LET key == consolidated_data.rows[x]["Item Number"]
         IN  /\ key # NaN /\ all_digits(key)
             /\ \E n \in DOMAIN production_files :
                  \E c \in item_cells(production_files[n]) : is_first_run(key, c[3])

\* extraction succeeded on files that hold a cell without digit and a cell
\* whose digits are only a part of its text
C12_Witness ==
    /\ stage_result[2] = "ok"
    /\ \E n \in DOMAIN production_files :
         \E c \in item_cells(production_files[n]) : ~has_digit(c[3])
    /\ \E n \in DOMAIN production_files :
         \E c \in item_cells(production_files[n]) :
             /\ has_digit(c[3]) /\ ~all_digits(c[3])
             /\ \E x \in DOMAIN consolidated_data.rows :
                  is_first_run(consolidated_data.rows[x]["Item Number"], c[3])

\* the run of the end-to-end scenario: two workbooks that both hold item 1001,
\* under the vendors Acme and Bolt, the one-row tracker, and the range
\* 2024-01-01 .. 2024-04-01
scenario_run ==
    /\ fs_files \in ScenarioFileLists
    /\ tracker_file = TrackerScenario
    /\ start_date = 20240101 /\ end_date = 20240401

rows_with(df, c, v) == { i \in DOMAIN df.rows : df.rows[i][c] = v }

\* C13: in the scenario no stage before the save fails; the consolidated data
\* holds exactly one record of item 1001, its reconciled row is tagged as coming
\* from both sources, the date filter keeps it, and the final output is exactly
\* one record with Item Number 1001, Artwork Release Date 15/03/24 and an empty
\* Re-Release Status.
C13_EndToEndScenario ==
    scenario_run =>
        /\ \A k \in 1..6 : stage_result[k] # "failed"
        /\ stage_result[2] = "ok" =>
             Cardinality(rows_with(consolidated_data, "Item Number", "1001")) = 1
        /\ stage_result[4] = "ok" =>
             /\ Cardinality(rows_with(combined_data, "Merge_Key", "1001")) = 1
             /\ \A i \in rows_with(combined_data, "Merge_Key", "1001") :
                  /\ combined_data.rows[i]["Data_Source"] = "Step1 + Step2"
                  /\ combined_data.rows[i]["Product Vendor Company Name"] \in { "Acme", "Bolt" }
        /\ stage_result[6] = "ok" =>
             /\ Len(final_output_data.rows) = 1
             /\ final_output_data.rows[1]["Item Number"] = "1001"
             /\ final_output_data.rows[1]["Artwork Release Date"] = "15/03/24"
             /\ final_output_data.rows[1]["Re-Release Status"] = ""
        /\ pc = "done" => (status = "Complete!" /\ progress = 100)

\* C14: every record of the tracker result has Re-Release Status 'Yes' exactly
\* when its status text, upper-cased, contains 'R2' or 'R3', and '' otherwise:
\* 'File Re-Release R2' and 'File Re-Release R3' give 'Yes', 'File Release' ''.
C14_ReReleaseFlag ==
    stage_result[3] = "ok" =>
        \A i \in DOMAIN project_tracker_data.rows :
            LET r == project_tracker_data.rows[i]
                up == str_upper(r["Rounds"])
            IN  /\ r["Re-Release Status"] \in { "Yes", "" }
                /\ r["Re-Release Status"] = "Yes" <=>
                      (str_contains("R2", up) \/ str_contains("R3", up))
                /\ r["Rounds"] \in { "File Re-Release R2", "File Re-Release R3" }
                      => r["Re-Release Status"] = "Yes"
                /\ r["Rounds"] = "File Release" => r["Re-Release Status"] = ""

\* a tracker result with a record of each of the three accepted statuses
C14_Witness ==
    /\ stage_result[3] = "ok"
    /\ \A v \in { "File Release", "File Re-Release R2", "File Re-Release R3" } :
         \E i \in DOMAIN project_tracker_data.rows : project_tracker_data.rows[i]["Rounds"] = v

\* the rows of tracker sheet k whose status is one of the three accepted texts
accepted_rows(k) ==
    LET sheet == tracker_file.sheets[k]
        col == tracker_found(sheet.columns)["Rounds"]
    IN  SelectIdx(sheet.rows,
                  [ i \in DOMAIN sheet.rows |->
                      \/ sheet.rows[i][col] = "File Release"
                      \/ sheet.rows[i][col] = "File Re-Release R2"
                      \/ sheet.rows[i][col] = "File Re-Release R3" ], 1)

\* C15: every record of project_tracker_data has one of the three accepted
\* statuses, and the records are, in order, the accepted rows of one sheet that
\* has a status column: no row of another status and no row of a sheet without
\* status column appears.
C15_StatusFilter ==
    /\ (stage_result[3] # "none"
          /\ \A k \in DOMAIN tracker_file.sheets :
               tracker_found(tracker_file.sheets[k].columns)["Rounds"] = 0)
       => (stage_result[3] = "failed" /\ project_tracker_data = EmptyFrame)
    /\ stage_result[3] = "ok" =>
        /\ \A i \in DOMAIN project_tracker_data.rows :
             project_tracker_data.rows[i]["Rounds"]
                 \in { "File Release", "File Re-Release R2", "File Re-Release R3" }
        /\ \E k \in DOMAIN tracker_file.sheets :
             LET sheet == tracker_file.sheets[k]
                 col == tracker_found(sheet.columns)["Rounds"]
             IN  /\ col # 0
                 /\ Len(project_tracker_data.rows) = Len(accepted_rows(k))
                 /\ \A i \in DOMAIN project_tracker_data.rows :
                      project_tracker_data.rows[i]["Rounds"] = accepted_rows(k)[i][col]

\* the tracker stage succeeded on a sheet that holds a row of another status
C15_Witness ==
    /\ stage_result[3] = "ok"
    /\ \E k \in DOMAIN tracker_file.sheets :
         LET sheet == tracker_file.sheets[k]
             col == tracker_found(sheet.columns)["Rounds"]
         IN  /\ col # 0
             /\ \E i \in DOMAIN sheet.rows : sheet.rows[i][col] = "In Progress"
             /\ Len(project_tracker_data.rows) = Len(sheet.rows) - 1

\* a key as the pipeline carries it: a non-empty string of digits
digit_key(k) == k # NaN /\ all_digits(k)

\* C16: normalizing an already normalized key gives the same key: a site applied
\* twice in a row returns what it returned the first time, and a key of digits
\* is returned unchanged by every site.
C16_NormalizationIdempotent ==
    /\ \A n \in DOMAIN norm_keys :
         \/ digit_key(norm_keys[n].key)
         \/ norm_keys[n].key = (IF norm_keys[n].site = "merge" THEN "" ELSE NaN)
    /\ \A n \in 2..Len(norm_keys) :
         (norm_keys[n].site = norm_keys[n - 1].site \/ digit_key(norm_keys[n - 1].key))
             => norm_keys[n].key = norm_keys[n - 1].key

\* a cell whose text is more than its digits was normalized by both sites
C16_Witness ==
    /\ Len(norm_keys) = MaxNormalizations
    /\ digit_key(norm_keys[1].key)
    /\ Len(norm_keys[1].key) >= 2
    /\ norm_keys[1].key # norm_cell
    /\ \E n \in DOMAIN norm_keys : norm_keys[n].site = "extract"
    /\ \E n \in DOMAIN norm_keys : norm_keys[n].site = "merge"

\* C17: every run that is started reaches the success state or the Failed
\* state, with the thread and the pool workers as the only ones that move: no
\* stage waits for the user.
C17_RunToCompletion ==
    (pc = "start") ~> \/ pc = "done" /\ status = "Complete!"
                      \/ pc = "failed" /\ status = "Failed"

\* a run that went through the pool with two files and ended
C17_Witness ==
    /\ pc \in { "done", "failed" }
    /\ Len(futures) = 2
    /\ \A i \in DOMAIN futures : futures[i] = "collected"

\* C18: the score find_header_row_fast computes for a row, whatever the best
\* score seen so far, is the number of canonical fields that have at least one
\* matching cell in the row.
C18_RowScore ==
    (hdr_pc = "loop" /\ row_idx > 0) =>
        row_score = Cardinality(fields_matched(df_sample[row_idx]))

\* the step of a pool worker that ends the task of file i
worker_ends(i) ==
    /\ pc = "pool"
    /\ i \in DOMAIN futures /\ i \in DOMAIN futures'
    /\ futures[i] = "pending"
    /\ futures'[i] = "finished"

\* C19 as stated: a worker task writes nothing that other workers or the
\* pipeline thread share; the result it returns is its only effect.
C19_WorkerIsolation ==
    [][ \A i \in DOMAIN futures :
          worker_ends(i) =>
            /\ \A j \in DOMAIN futures \ { i } : futures'[j] = futures[j] /\ results'[j] = results[j]
            /\ UNCHANGED << hdr_vars, norm_vars, env_vars, data_vars, all_data, completed,
                            processing_logs, run_vars >> ]_vars

\* C19: a worker task changes no dataset, counter, progress or status of the
\* pipeline thread and no other task's result; besides the result it returns
\* it only appends at most one line of its own to the shared processing_logs.
C19_WorkerWritesLogOnly ==
    [][ \A i \in DOMAIN futures :
          worker_ends(i) =>
            /\ \A j \in DOMAIN futures \ { i } : futures'[j] = futures[j] /\ results'[j] = results[j]
            /\ UNCHANGED << hdr_vars, norm_vars, env_vars, data_vars, all_data, completed,
                            run_vars >>
            /\ Len(processing_logs') \in { Len(processing_logs), Len(processing_logs) + 1 }
            /\ SubSeq(processing_logs', 1, Len(processing_logs)) = processing_logs
            /\ Len(processing_logs') = Len(processing_logs) + 1 =>
                 processing_logs'[Len(processing_logs')].thread = "worker" ]_vars

\* the pool is running, a worker has logged its records and another task is
\* still pending
C19_Witness ==
    /\ pc = "pool"
    /\ \E n \in DOMAIN processing_logs : processing_logs[n].thread = "worker"
    /\ \E i \in DOMAIN futures : futures[i] = "pending"
    /\ \E i \in DOMAIN futures : futures[i] = "finished" /\ ~df_empty(results[i])

\* the collected results that hold a record of key k, in the order in which
\* the pipeline thread collected them
holders(k) == { f \in DOMAIN all_data : \E r \in Range(all_data[f].rows) : r["Item Number"] = k }

\* C20: when the results of the pool are consolidated, every key held by the
\* collected results has exactly one record in consolidated_data, and it is the
\* record of the result that was collected first among those holding the key.
C20_FirstCollectedWins ==
    pc = "step3" =>
        /\ \A f \in DOMAIN all_data : \A r \in Range(all_data[f].rows) :
              Cardinality(rows_with(consolidated_data, "Item Number", r["Item Number"])) = 1
        /\ \A n \in DOMAIN consolidated_data.rows :
              LET k == consolidated_data.rows[n]["Item Number"]
              IN  /\ holders(k) # {}
                  /\ \A f \in holders(k) :
                        (\A g \in holders(k) : f <= g) =>
                            consolidated_data.rows[n] \in Range(all_data[f].rows)

\* a.xlsx was submitted before b.xlsx, both hold item 1001, and the record of
\* b.xlsx (vendor Bolt) survived because its result was collected first
C20_Witness ==
    /\ pc = "step3"
    /\ fs_files = << FileA, FileB >>
    /\ Cardinality(holders("1001")) = 2
    /\ \E n \in DOMAIN consolidated_data.rows :
         /\ consolidated_data.rows[n]["Item Number"] = "1001"
         /\ consolidated_data.rows[n]["Product Vendor Company Name"] = "Bolt"

\* the counts reported by "Progress: <completed>/<total> files processed"
progress_reports ==
    LET lines == SelectIdx(processing_logs,
                           [ n \in DOMAIN processing_logs |->
                               processing_logs[n].thread = "pipeline" ], 1)
    IN  [ n \in DOMAIN lines |-> lines[n].n ]

\* the counts up to c that are a multiple of 10 or the number of files
due_reports(c, total) ==
    SelectIdx([ k \in 1..c |-> k ], [ k \in 1..c |-> k % 10 = 0 \/ k = total ], 1)

\* the pool is running: the count matches the collected results, the reports
\* are those due, and the progress pushed is that of the last report
extraction_reports_ok ==
    pc = "pool" =>
        LET total == Len(production_files)
            reports == progress_reports
            pushed == [ a \in DOMAIN reports |-> extraction_progress(reports[a], total) ]
        IN  /\ completed = Cardinality({ i \in DOMAIN futures : futures[i] = "collected" })
            /\ reports = due_reports(completed, total)
            /\ \A a, b \in DOMAIN reports :
                  a < b => reports[a] < reports[b] /\ pushed[a] <= pushed[b]
            /\ \A a \in DOMAIN reports : pushed[a] \in 20..40
            /\ progress = IF reports = <<>> THEN 20 ELSE pushed[Len(pushed)]
            /\ completed = total /\ total > 0 =>
                  reports # <<>> /\ reports[Len(reports)] = total

\* a step of the pool: the count moves only when the pipeline thread collects
\* one finished result, then by one; a worker leaves it alone
extraction_count_step ==
    (pc = "pool" /\ pc' = "pool") =>
        /\ completed' # completed =>
              /\ completed' = completed + 1
              /\ Cardinality({ i \in DOMAIN futures :
                                 futures[i] = "finished" /\ futures'[i] = "collected" }) = 1
        /\ (\E i \in DOMAIN futures : futures[i] = "pending" /\ futures'[i] = "finished") =>
              completed' = completed /\ progress' = progress
        /\ progress' >= progress

\* C21: during the extraction the completed count is incremented only by the
\* pipeline thread, once per finished file; the reported counts increase
\* strictly, a report is made exactly at the multiples of 10 and at the number
\* of files, the last one equals the number of files, and every progress value
\* pushed lies in 20..40 and never decreases.
C21_ExtractionProgress == []extraction_reports_ok /\ [][extraction_count_step]_vars

\* more than ten workbooks: a report at 10 and a report at the end
C21_Witness ==
    /\ pc = "pool"
    /\ Len(production_files) > 10
    /\ progress_reports = << 10, Len(production_files) >>
    /\ progress = 40

\* C22: at any moment at most one thread runs process(): once Apply has started
\* a run, nothing the user does at the window starts a second one before the
\* first has ended.
C22_SinglePipelineThread == process_threads <= 1

\* the workbook without the sheets that raise when they are read
readable_part(file) ==
    [ file EXCEPT !.sheets =
        SelectIdx(file.sheets, [ k \in DOMAIN file.sheets |-> file.sheets[k].readable ], 1) ]

\* the units extract_file skipped in a workbook: the workbook itself when it
\* does not open, else its sheets that raise
skipped_units(file) ==
    IF ~file.opens THEN 1
    ELSE Cardinality({ k \in DOMAIN file.sheets : ~file.sheets[k].readable })

\* the error lines the workers logged about a workbook
error_lines(file) ==
    { n \in DOMAIN processing_logs :
        /\ processing_logs[n].thread = "worker"
        /\ processing_logs[n].text = "[X] " \o file.name }

\* the result of a task holds the records of the sheets that could be read
sheets_skipped_not_fatal ==
    \A i \in DOMAIN futures :
        futures[i] # "pending" =>
            results[i] = IF production_files[i].opens
                         THEN extract_file(readable_part(production_files[i]))
                         ELSE EmptyFrame

\* step 2 succeeds exactly when a workbook yields a record, and then every
\* record key of every workbook is in consolidated_data
files_skipped_not_fatal ==
    stage_result[2] # "none" =>
        /\ stage_result[2] = "ok" <=> \E i \in DOMAIN results : ~df_empty(results[i])
        /\ stage_result[2] = "ok" =>
              \A i \in DOMAIN results : \A r \in Range(results[i].rows) :
                  rows_with(consolidated_data, "Item Number", r["Item Number"]) # {}

\* every unit a finished task skipped has its own error line
skipped_units_logged ==
    \A i \in DOMAIN futures :
        futures[i] # "pending" =>
            Cardinality(error_lines(production_files[i])) >= skipped_units(production_files[i])

\* C23: a sheet that raises does not lose the records of the other sheets of
\* its workbook, a workbook that fails does not lose the records of the other
\* workbooks (the extraction succeeds when one workbook yields a record), and
\* every skipped sheet or workbook produces a log line.
C23_SkippedNotFatal ==
    sheets_skipped_not_fatal /\ files_skipped_not_fatal /\ skipped_units_logged

\* C24: when filter_by_date_range raises after it selected the date column,
\* the stage is reported as passed, combined_data is what it was before the
\* call, every row included, and the thread goes on to the projection stage.
C24_FilterDegrades ==
    [][ (pc = "step5" /\ filter_raised') =>
            /\ combined_data' = combined_data
            /\ stage_result'[5] = "ok"
            /\ stage_rows'[5] = Len(combined_data.rows)
            /\ pc' = "step6"
            /\ status' # "Failed" ]_vars

\* the filter raised on rows it would not have kept all, and the projection
\* stage is next with every row still there
C24_Witness ==
    /\ filter_raised
    /\ pc = "step6"
    /\ Len(combined_data.rows) > 0
    /\ Len(filter_by_date_range(combined_data, start_date, end_date).data.rows)
           < Len(combined_data.rows)

\* the names that hold the word w, in any case
names_with(columns, w) == { i \in DOMAIN columns : str_contains(w, str_lower(columns[i])) }

\* the column the filter is to use: the leftmost artwork release date column,
\* without one the leftmost release date column, 0 without either
preferred_date_column(columns) ==
    LET release == names_with(columns, "release") \cap names_with(columns, "date")
        artwork == release \cap names_with(columns, "artwork")
    IN  IF artwork # {} THEN CHOOSE i \in artwork : \A j \in artwork : i <= j
        ELSE IF release # {} THEN CHOOSE i \in release : \A j \in release : i <= j
        ELSE 0

\* C25: filter_by_date_range filters on the first column whose name holds
\* 'artwork', 'release' and 'date', without one on the first column that holds
\* 'release' and 'date', and without either it leaves combined_data as it is;
\* in each case it reports success.
C25_DateColumnSelection ==
    [][ (pc = "step5" /\ ~df_empty(combined_data)) =>
            LET k == preferred_date_column(combined_data.columns)
            IN  /\ stage_result'[5] = "ok"
                /\ pc' = "step6"
                /\ combined_data'.columns = combined_data.columns
                /\ combined_data'.rows =
                     IF k = 0 THEN combined_data.rows
                     ELSE SelectIdx(combined_data.rows,
                                    [ i \in DOMAIN combined_data.rows |->
                                        in_date_range(combined_data.rows[i][combined_data.columns[k]],
                                                      start_date, end_date) ], 1) ]_vars

\* the filter ran on a frame whose first release date column is no artwork
\* column and holds a date out of range, while the artwork column to its right
\* holds a date in range: the row is kept
C25_Witness ==
    /\ pc = "step6"
    /\ Len(combined_data.columns) = 3
    /\ combined_data.columns[1] = "Release Date"
    /\ combined_data.columns[2] = "Store Date"
    /\ combined_data.columns[3] = "Date of Artwork Release"
    /\ Len(combined_data.rows) = 1
    /\ combined_data.rows[1]["Release Date"] = "15/03/25"
    /\ combined_data.rows[1]["Date of Artwork Release"] = "15/03/24"

\* the sheet can be read and has a status column
has_rounds(sheet) ==
    /\ sheet.readable
    /\ \E c \in DOMAIN sheet.columns : str_contains("rounds", clean_alnum(str_lower(sheet.columns[c])))

\* the number of rows of a sheet whose status is accepted
accepted_count(sheet) ==
    IF ~has_rounds(sheet) THEN 0
    ELSE LET col == CHOOSE c \in DOMAIN sheet.columns :
                       /\ str_contains("rounds", clean_alnum(str_lower(sheet.columns[c])))
                       /\ \A d \in 1..(c - 1) :
                             ~str_contains("rounds", clean_alnum(str_lower(sheet.columns[d])))
         IN  Cardinality({ i \in DOMAIN sheet.rows :
                             sheet.rows[i][col] \in { "File Release", "File Re-Release R2",
                                                       "File Re-Release R3" } })

\* the tracker workbook can be opened
tracker_opens == tracker_file.path # "" /\ tracker_file.exists /\ tracker_file.opens

\* C26: when the tracker stage succeeds, project_tracker_data is the result of
\* one sheet alone: the earliest of the sheets with the most accepted rows.
C26_TrackerBestSheet ==
    [][ (pc = "step3" /\ stage_result'[3] = "ok") =>
            \E k \in DOMAIN tracker_file.sheets :
                /\ \A j \in DOMAIN tracker_file.sheets :
                      /\ accepted_count(tracker_file.sheets[j]) <= accepted_count(tracker_file.sheets[k])
                      /\ j < k =>
                            accepted_count(tracker_file.sheets[j]) < accepted_count(tracker_file.sheets[k])
                /\ project_tracker_data' = process_tracker_sheet_fast(tracker_file.sheets[k])
                /\ Len(project_tracker_data'.rows) = accepted_count(tracker_file.sheets[k]) ]_vars

\* three sheets with one, two and two accepted rows: the records are those of
\* the second sheet
C26_Witness ==
    /\ pc = "step4"
    /\ Len(tracker_file.sheets) = 3
    /\ accepted_count(tracker_file.sheets[1]) = 1
    /\ accepted_count(tracker_file.sheets[2]) = 2
    /\ accepted_count(tracker_file.sheets[3]) = 2
    /\ tracker_file.sheets[2] # tracker_file.sheets[3]
    /\ project_tracker_data = process_tracker_sheet_fast(tracker_file.sheets[2])
    /\ project_tracker_data # process_tracker_sheet_fast(tracker_file.sheets[3])

\* C27: the tracker stage fails, leaving project_tracker_data as it was and
\* ending the run at step 3, exactly when the workbook is missing or cannot be
\* opened, no sheet has a status column, or no sheet has a row with an accepted
\* status; otherwise it succeeds with a dataset that is not empty.
C27_TrackerStageFailure ==
    [][ pc = "step3" =>
            LET fails == \/ ~tracker_opens
                         \/ \A j \in DOMAIN tracker_file.sheets : ~has_rounds(tracker_file.sheets[j])
                         \/ \A j \in DOMAIN tracker_file.sheets :
                               accepted_count(tracker_file.sheets[j]) = 0
            IN  IF fails
                THEN /\ stage_result'[3] = "failed"
                     /\ pc' = "failed"
                     /\ project_tracker_data' = project_tracker_data
                ELSE /\ stage_result'[3] = "ok"
                     /\ pc' = "step4"
                     /\ ~df_empty(project_tracker_data') ]_vars

\* a workbook whose sheets have a status column but no accepted row: the run
\* failed at step 3 and the records of the earlier run are still there
C27_Witness ==
    /\ pc = "failed"
    /\ stage_result[3] = "failed"
    /\ tracker_opens
    /\ \E j \in DOMAIN tracker_file.sheets : has_rounds(tracker_file.sheets[j])
    /\ project_tracker_data = OldTrackerData

\* the rows of the merge that have a row of both sources
both_rows(df) == rows_with(df, "Data_Source", "Step1 + Step2")

\* C28: when the tracker records have a release-date column and the date
\* filter ran without an internal error, the final output has one record for
\* each row of the filtered merge tagged 'Step1 + Step2' and no other: the
\* filter leaves no row of the consolidated data alone, and the rows of the
\* tracker alone have no Item Number and are dropped by the projection.
C28_OuterJoinCollapses ==
    ( /\ stage_result[6] = "ok"
      /\ has_column(project_tracker_data, "Artwork Release Date")
      /\ ~filter_raised ) =>
        /\ rows_with(combined_data, "Data_Source", "Step1 Only") = {}
        /\ \A i \in rows_with(combined_data, "Data_Source", "Step2 Only") :
              combined_data.rows[i]["Item Number"] = NaN
        /\ Len(final_output_data.rows) = Cardinality(both_rows(combined_data))
        /\ \A i \in DOMAIN final_output_data.rows :
              \E j \in both_rows(combined_data) :
                  /\ final_output_data.rows[i]["Item Number"] = combined_data.rows[j]["Item Number"]
                  /\ final_output_data.rows[i]["Artwork Release Date"]
                        = combined_data.rows[j]["Artwork Release Date"]

\* a run whose merge had a row of the consolidated data alone and a row of the
\* tracker alone in the date range, and whose final output is not empty
C28_Witness ==
    /\ stage_result[6] = "ok"
    /\ has_column(project_tracker_data, "Artwork Release Date")
    /\ ~filter_raised
    /\ \E p \in Range(combined_pairs) : data_source(p) = "Step1 Only"
    /\ rows_with(combined_data, "Data_Source", "Step2 Only") # {}
    /\ final_output_data.rows # <<>>

\* C29: whenever a run has ended, in success or in failure, the Apply control
\* is enabled again at some later time with the thread and the UI clock as the
\* only ones that move.
C29_Restartability == (pc \in { "done", "failed" }) ~> ~apply_btn_disabled

\* the failure half of C29: after a run that failed the scheduled callback
\* enables the Apply control
C29_RestartAfterFailure == (pc = "failed") ~> ~apply_btn_disabled

====
